---------------------------- MODULE Spec2Model ----------------------------
(***************************************************************************)
(* auto-note: recording buffer, sample store, persistence codec, timing    *)
(* aggregator and playback scheduler.                                      *)
(*                                                                         *)
(* The repository holds two implementations side by side:                  *)
(*   - MacroRecorder (recorder.rs), driven by the overlay of main.rs;      *)
(*   - AppState (state.rs) with the scheduler of macro_play.rs.            *)
(* Both are modelled.  The clock counts milliseconds in the MacroRecorder  *)
(* runs and units of 100 microseconds in the AppState playback runs.       *)
(***************************************************************************)
EXTENDS Integers, Sequences, FiniteSets, TLC

VARIABLES
  recorder,      \* the MacroRecorder behind main.rs's Arc<Mutex<..>>
  channel,       \* mpsc channel listener -> poll_events: <<mode, raw_key, ts>>
  disk,          \* content of the persisted sample file
  now,           \* wall clock (Instant::now), in time units
  play_threads,  \* threads spawned by MacroRecorder::play_events
  recording,     \* AppState.recording (AtomicBool)
  start,         \* AppState.start (Mutex<Option<Instant>>)
  current_events,\* AppState.current_events (Mutex<Vec<TimedEvent>>)
  app_samples,   \* AppState.samples (Mutex<Vec<Sample>>)
  key_states,    \* AppState.key_states (Mutex<HashMap<Key, bool>>)
  app_threads,   \* the listener thread and the controlling thread of AppState
  playback_stop, \* AppState.playback_stop (AtomicBool)
  playing,       \* AppState.playing (AtomicBool)
  playback_handle, \* AppState.playback_handle (Mutex<Option<JoinHandle>>), 0 = None
  handle_lock,   \* who holds the mutex of playback_handle
  app_offset_ms, \* AppState.playback_offset_ms (Mutex<i64>)
  workers,       \* threads spawned by play_timeline_async
  watchers       \* watcher threads spawned by playback_sample

(***************************************************************************)
(* Bounds of the model.                                                    *)
(***************************************************************************)
MaxTime    == 2     \* the clock stops advancing here
MaxChan    == 1     \* messages waiting in the channel
MaxLive    == 2     \* events captured in one session
MaxSamples == 2     \* samples in the store when a session may start
MaxThreads == 2     \* playback threads spawned
MaxId      == 3     \* the id counter when a session may start
MaxAppSamples == 1  \* AppState samples when a session may start
MaxPlayTime == 9    \* the clock of the playback runs stops advancing here
MaxWorkers == 2     \* playbacks asked of AppState
MaxAggSamples == 3  \* samples in the store the aggregator is applied to
MaxAggThreads == 1  \* threads handed a timeline of the store

(***************************************************************************)
(* Small helpers.                                                          *)
(***************************************************************************)
Range(s) == {s[i] : i \in 1..Len(s)}

Max0(x) == IF x >= 0 THEN x ELSE 0

RECURSIVE SetMax(_)
SetMax(S) ==
  IF S = {} THEN 0
  ELSE LET x == CHOOSE y \in S : TRUE
           m == SetMax(S \ {x})
       IN IF x >= m THEN x ELSE m

(***************************************************************************)
(* enigo::Key and rdev::Key.                                               *)
(***************************************************************************)
Layout(c) == [kind |-> "Layout", ch |-> c]
Named(n)  == [kind |-> n, ch |-> ""]

\* recorder.rs map_key: rdev key -> enigo key, None when not mapped.
None == [kind |-> "None", ch |-> ""]

map_key(key) ==
  CASE key = "KeyA" -> Layout("a")
    [] key = "KeyS" -> Layout("s")
    [] key = "KeyD" -> Layout("d")
    [] key = "KeyF" -> Layout("f")
    [] key = "KeyJ" -> Layout("j")
    [] key = "KeyK" -> Layout("k")
    [] key = "KeyL" -> Layout("l")
    [] key = "Space" -> Named("Space")
    [] key = "Return" -> Named("Return")
    [] key = "Tab" -> Named("Tab")
    [] key = "Escape" -> Named("Escape")
    [] key = "UpArrow" -> Named("UpArrow")
    [] key = "DownArrow" -> Named("DownArrow")
    [] key = "LeftArrow" -> Named("LeftArrow")
    [] key = "RightArrow" -> Named("RightArrow")
    [] key = "ShiftLeft" -> Named("Shift")
    [] key = "ShiftRight" -> Named("Shift")
    [] key = "ControlLeft" -> Named("Control")
    [] key = "ControlRight" -> Named("Control")
    [] key = "Alt" -> Named("Alt")
    [] key = "AltGr" -> Named("Alt")
    [] key = "MetaLeft" -> Named("Meta")
    [] key = "MetaRight" -> Named("Meta")
    [] OTHER -> None

\* The named keys key_to_string writes by their literal name.
NamedTags ==
  {"Space", "Return", "Tab", "Escape", "UpArrow", "DownArrow", "LeftArrow",
   "RightArrow", "Shift", "Control", "Alt", "Meta"}

\* recorder.rs key_to_string.
key_to_string_Meta(key) ==
  IF key.kind = "Layout" THEN "char:" \o key.ch
  ELSE IF key.kind = "Meta" THEN "Super"
  ELSE IF key.kind \in NamedTags THEN key.kind
  ELSE "other:" \o key.kind

key_to_string(key) ==
  IF key.kind = "Layout" THEN "char:" \o key.ch
  ELSE IF key.kind \in NamedTags THEN key.kind
  ELSE "other:" \o key.kind

\* recorder.rs string_to_key: strip_prefix("char:") then the first character,
\* else the literal names, else None.
string_to_key(s) ==
  LET stripped == Len(s) >= 5 /\ SubSeq(s, 1, 5) = "char:"
      rest     == SubSeq(s, 6, Len(s))
  IN IF stripped /\ rest # "" THEN Layout(SubSeq(rest, 1, 1))
     ELSE IF s \in NamedTags THEN Named(s)
     ELSE None

(***************************************************************************)
(* Persistence codec: to_serializable / from_serializable.                 *)
(***************************************************************************)
SerialMode(mode) == IF mode = "Press" THEN "Press" ELSE "Release"

RecordedMode(mode) == IF mode = "Press" THEN "Press" ELSE "Release"

SerializableTimedEvent(e) ==
  [key |-> key_to_string(e.key), mode |-> SerialMode(e.mode), delta_ms |-> e.delta_ms]

SerializableSample(s) ==
  [id |-> s.id, started_at |-> s.started_at, name |-> s.name,
   events |-> [i \in 1..Len(s.events) |-> SerializableTimedEvent(s.events[i])]]

to_serializable(samples) ==
  [i \in 1..Len(samples) |-> SerializableSample(samples[i])]

\* The inner loop of from_serializable: push the events whose tag decodes.
RECURSIVE DecodeEvents(_)
DecodeEvents_DropAfter(evs) ==
  IF evs = <<>> THEN <<>>
  ELSE LET e == Head(evs)
           key == string_to_key(e.key)
       IN IF key # None
          THEN <<[key |-> key, mode |-> RecordedMode(e.mode), delta_ms |-> e.delta_ms]>>
               \o DecodeEvents(Tail(evs))
          ELSE <<>>

DecodeEvents(evs) ==
  IF evs = <<>> THEN <<>>
  ELSE LET e == Head(evs)
           key == string_to_key(e.key)
       IN IF key # None
          THEN <<[key |-> key, mode |-> RecordedMode(e.mode), delta_ms |-> e.delta_ms]>>
               \o DecodeEvents(Tail(evs))
          ELSE DecodeEvents(Tail(evs))

from_serializable(serial) ==
  [i \in 1..Len(serial) |->
     [id |-> serial[i].id, started_at |-> serial[i].started_at,
      name |-> serial[i].name, events |-> DecodeEvents(serial[i].events)]]

(***************************************************************************)
(* The persisted file.                                                     *)
(***************************************************************************)
Missing   == [kind |-> "missing", recs |-> <<>>]
Blank     == [kind |-> "blank", recs |-> <<>>]
Malformed == [kind |-> "malformed", recs |-> <<>>]
Json(recs) == [kind |-> "json", recs |-> recs]

\* serde_json::from_str(&data).unwrap_or_default()
ParseJson(file) == IF file.kind = "json" THEN file.recs ELSE <<>>


(***************************************************************************)
(* Timing aggregator: MacroRecorder::timing_map.                           *)
(***************************************************************************)
RECURSIVE SetSum(_, _)
SetSum(S, f) ==
  IF S = {} THEN 0
  ELSE LET x == CHOOSE y \in S : TRUE
       IN f[x] + SetSum(S \ {x}, f)

RECURSIVE SetMin(_)
SetMin(S) ==
  LET x == CHOOSE y \in S : TRUE
  IN IF S = {x} THEN x
     ELSE LET m == SetMin(S \ {x}) IN IF x <= m THEN x ELSE m

\* Vec::sort on the bucket's values (ascending).
RECURSIVE Insert(_, _)
Insert(x, sorted) ==
  IF sorted = <<>> THEN <<x>>
  ELSE IF x <= Head(sorted) THEN <<x>> \o sorted
  ELSE <<Head(sorted)>> \o Insert(x, Tail(sorted))

RECURSIVE Sort(_)
Sort(vals) == IF vals = <<>> THEN <<>> ELSE Insert(Head(vals), Sort(Tail(vals)))

\* fn key_id: the Debug rendering of the key.
key_id(key) ==
  IF key.kind = "Layout" THEN "Layout('" \o key.ch \o "')" ELSE key.kind

\* The minimum event count among the samples that have events, else 0.
expected_len_CountEmpty(samples) ==
  LET lens == {Len(samples[i].events) : i \in 1..Len(samples)}
  IN IF lens = {} THEN 0 ELSE SetMin(lens)

expected_len(samples) ==
  LET lens == {Len(samples[i].events) : i \in {j \in 1..Len(samples) : samples[j].events # <<>>}}
  IN IF lens = {} THEN 0 ELSE SetMin(lens)

\* The keys of per_slot: (key_id, mode, idx) of every event at idx < expected_len.
Slots(samples) ==
  {<<key_id(samples[i].events[idx].key), samples[i].events[idx].mode, idx>> :
     <<i, idx>> \in {p \in (1..Len(samples)) \X (1..expected_len(samples)) :
                       p[2] <= Len(samples[p[1]].events)}}

\* The samples that pushed a value into the bucket of `slot`.
Contributors(samples, slot) ==
  {i \in 1..Len(samples) :
     /\ slot[3] <= Len(samples[i].events)
     /\ key_id(samples[i].events[slot[3]].key) = slot[1]
     /\ samples[i].events[slot[3]].mode = slot[2]}

\* The bucket's values in push order (sample order).
RECURSIVE BucketVals(_, _, _)
BucketVals(samples, slot, i) ==
  IF i > Len(samples) THEN <<>>
  ELSE (IF i \in Contributors(samples, slot)
        THEN <<samples[i].events[slot[3]].delta_ms>> ELSE <<>>)
       \o BucketVals(samples, slot, i + 1)

\* Median branch: vals[vals.len() / 2] of the sorted values.
MedianOf_LowerMiddle(vals) == Sort(vals)[((Len(vals) - 1) \div 2) + 1]

MedianOf(vals) == Sort(vals)[(Len(vals) \div 2) + 1]

\* Mean branch.  The f64 comparison |v - mean| <= outlier_k * std is decided
\* exactly: with SW the weight sum, SV the weighted value sum and
\* dev(i) = v_i*SW - SV, it reads dev(i)^2 * SW * den^2 <= num^2 * sum_j w_j dev(j)^2.
MeanOf_Unweighted(samples, slot, k) ==
  LET C      == Contributors(samples, slot)
      v      == [i \in C |-> samples[i].events[slot[3]].delta_ms]
      w      == [i \in C |-> 1]
      sum_w  == SetSum(C, w)
      sum_vw == SetSum(C, [i \in C |-> v[i] * w[i]])
      dev    == [i \in C |-> v[i] * sum_w - sum_vw]
      varN   == SetSum(C, [i \in C |-> w[i] * dev[i] * dev[i]])
      filtered == {i \in C : dev[i] * dev[i] * sum_w * k.den * k.den <= k.num * k.num * varN}
      use_vals == IF filtered = {} THEN C ELSE filtered
  IN SetSum(use_vals, v) \div Cardinality(use_vals)

MeanOf(samples, slot, k) ==
  LET C      == Contributors(samples, slot)
      v      == [i \in C |-> samples[i].events[slot[3]].delta_ms]
      w      == [i \in C |-> IF Len(samples[i].events) >= 1 THEN Len(samples[i].events) ELSE 1]
      sum_w  == SetSum(C, w)
      sum_vw == SetSum(C, [i \in C |-> v[i] * w[i]])
      dev    == [i \in C |-> v[i] * sum_w - sum_vw]
      varN   == SetSum(C, [i \in C |-> w[i] * dev[i] * dev[i]])
      filtered == {i \in C : dev[i] * dev[i] * sum_w * k.den * k.den <= k.num * k.num * varN}
      use_vals == IF filtered = {} THEN C ELSE filtered
  IN SetSum(use_vals, v) \div Cardinality(use_vals)

\* The key rebuilt from the key_id string: the first character after "Layout(".
rebuilt_key(k_id) ==
  LET stripped == Len(k_id) >= 7 /\ SubSeq(k_id, 1, 7) = "Layout("
      rest     == SubSeq(k_id, 8, Len(k_id))
  IN IF stripped /\ rest # "" THEN Layout(SubSeq(rest, 1, 1)) ELSE Layout("?")

\* The event pushed for one bucket.
Aggregate(samples, slot, use_median, k) ==
  [key |-> rebuilt_key(slot[1]), mode |-> slot[2],
   delta_ms |-> IF use_median THEN MedianOf(BucketVals(samples, slot, 1))
                ELSE MeanOf(samples, slot, k)]

\* Every result timing_map can return: the buckets are visited in the HashMap's
\* iteration order, which is arbitrary, and the stable sort keeps ties in it.
timing_map_Unsorted(r) ==
  LET S == Slots(r.samples)
      n == Cardinality(S)
      agg == [s \in S |-> Aggregate(r.samples, s, r.use_median, r.outlier_k)]
  IN {[i \in 1..n |-> agg[f[i]]] :
        f \in {g \in [1..n -> S] :
                 /\ \A a, b \in 1..n : a # b => g[a] # g[b]
                 /\ TRUE}}


timing_map(r) ==
  LET S == Slots(r.samples)
      n == Cardinality(S)
      agg == [s \in S |-> Aggregate(r.samples, s, r.use_median, r.outlier_k)]
  IN {[i \in 1..n |-> agg[f[i]]] :
        f \in {g \in [1..n -> S] :
                 /\ \A a, b \in 1..n : a # b => g[a] # g[b]
                 /\ \A a \in 1..n : a < n => agg[g[a]].delta_ms <= agg[g[a + 1]].delta_ms}}


(***************************************************************************)
(* MacroRecorder (recorder.rs).                                            *)
(***************************************************************************)
NoInstant == [some |-> FALSE, at |-> 0]
SomeInstant(t) == [some |-> TRUE, at |-> t]

EmptyMap == [t \in {} |-> 0]
MapGet(m, k) == IF k \in DOMAIN m THEN m[k] ELSE 0
MapInsert(m, k, v) == [t \in (DOMAIN m) \cup {k} |-> IF t = k THEN v ELSE m[t]]

\* impl Default for MacroRecorder.
DefaultRecorder ==
  [live_events |-> <<>>, samples |-> <<>>, is_recording |-> FALSE,
   allowed_keys |-> <<>>, pressed_keys |-> {}, recording_start |-> NoInstant,
   sample_counter |-> 0, per_key_offset |-> EmptyMap,
   hotkey_toggle |-> "F9", hotkey_playback |-> "F10",
   outlier_k |-> [num |-> 2, den |-> 1], use_median |-> FALSE,
   playback_offset_ms |-> 0, autosave |-> TRUE]

\* A thread spawned by play_events, before it has run.
Thread(events, offset_ms, per_key_offset) ==
  [events |-> events, offset_ms |-> offset_ms, per_key_offset |-> per_key_offset,
   pc |-> "spawned", idx |-> 1, start |-> 0, target |-> 0, wake |-> 0, calls |-> <<>>]

\* The state one handler works on: the recorder, the file and the spawned threads.
World(r, d, th) == [r |-> r, disk |-> d, threads |-> th]

\* save_to_disk: the whole store through the codec; a failed write leaves the file.
save_to_disk(r, d, ok) == IF ok THEN Json(to_serializable(r.samples)) ELSE d

\* load_from_disk: a missing or blank file, or a failed read, changes nothing.
load_from_disk_KeepOnMalformed(r, d, ok) ==
  IF d.kind \in {"missing", "blank", "malformed"} \/ ~ok THEN r
  ELSE LET converted == from_serializable(ParseJson(d))
       IN [r EXCEPT !.sample_counter = SetMax({converted[i].id : i \in 1..Len(converted)}),
                    !.samples = converted]

load_from_disk_CountLen(r, d, ok) ==
  IF d.kind = "missing" \/ ~ok \/ d.kind = "blank" THEN r
  ELSE LET converted == from_serializable(ParseJson(d))
       IN [r EXCEPT !.sample_counter = Len(converted), !.samples = converted]

load_from_disk_Merge(r, d, ok) ==
  IF d.kind = "missing" \/ ~ok \/ d.kind = "blank" THEN r
  ELSE LET converted == from_serializable(ParseJson(d))
       IN [r EXCEPT !.sample_counter = SetMax({converted[i].id : i \in 1..Len(converted)}),
                    !.samples = r.samples \o converted]

load_from_disk(r, d, ok) ==
  IF d.kind = "missing" \/ ~ok \/ d.kind = "blank" THEN r
  ELSE LET converted == from_serializable(ParseJson(d))
       IN [r EXCEPT !.sample_counter = SetMax({converted[i].id : i \in 1..Len(converted)}),
                    !.samples = converted]

\* What load_from_disk returns: Err only when the file exists and the read fails.
load_from_disk_result(d, ok) ==
  IF d.kind = "missing" THEN "Ok" ELSE IF ~ok THEN "Err" ELSE "Ok"

start_recording(r, t) ==
  [r EXCEPT !.is_recording = TRUE, !.recording_start = SomeInstant(t), !.live_events = <<>>]

\* "sample-{counter}"
SampleName(n) == "sample-" \o ToString(n)

\* finish_recording on world w; ok is the outcome of the autosave write.
finish_recording(w, ok) ==
  LET r  == w.r
      r1 == IF r.is_recording
            THEN [r EXCEPT !.sample_counter = r.sample_counter + 1,
                           !.samples = Append(r.samples,
                              [id |-> r.sample_counter + 1, started_at |-> 0,
                               name |-> SampleName(r.sample_counter + 1),
                               events |-> r.live_events])]
            ELSE r
      d1 == IF r.is_recording /\ r.autosave THEN save_to_disk(r1, w.disk, ok) ELSE w.disk
  IN World([r1 EXCEPT !.is_recording = FALSE, !.recording_start = NoInstant,
                      !.live_events = <<>>],
           d1, w.threads)

\* play_events: spawn a detached thread for the timeline.
play_events(w, events, offset_ms, per_key_offset) ==
  World(w.r, w.disk, Append(w.threads, Thread(events, offset_ms, per_key_offset)))

\* Vec::contains on allowed_keys.
Contains_NonEmpty(seq, x) == seq # <<>>

Contains(seq, x) == \E i \in 1..Len(seq) : seq[i] = x

\* One iteration of the loop of poll_events, on message msg = <<mode, raw_key, ts>>
\* taken from the channel at time t: the set of worlds it can lead to.  oks holds
\* the outcomes a write to the file can have (TRUE: written, FALSE: failed).
PollOne(w, msg, t, oks) ==
  LET mode == msg[1]
      raw_key == msg[2]
      ts == msg[3]
      r == w.r
      mapped == map_key(raw_key)
  IN IF raw_key = r.hotkey_toggle /\ mode = "Press"
     THEN IF r.is_recording
          THEN {finish_recording(w, ok) : ok \in oks}
          ELSE {World(start_recording(r, t), w.disk, w.threads)}
     ELSE IF raw_key = r.hotkey_playback /\ mode = "Press"
     THEN {IF events # <<>>
           THEN play_events(w, events, r.playback_offset_ms, r.per_key_offset)
           ELSE w : events \in timing_map(r)}
     ELSE IF r.is_recording /\ mapped # None
               /\ ~(r.allowed_keys # <<>> /\ ~Contains(r.allowed_keys, mapped))
     THEN LET live == IF r.recording_start.some
                      THEN Append(r.live_events,
                                  [key |-> mapped, mode |-> mode,
                                   delta_ms |-> Max0(ts - r.recording_start.at)])
                      ELSE r.live_events
              pressed == IF mode = "Press" THEN r.pressed_keys \cup {mapped}
                         ELSE r.pressed_keys \ {mapped}
          IN {World([r EXCEPT !.live_events = live, !.pressed_keys = pressed],
                    w.disk, w.threads)}
     ELSE {w}

\* The whole loop: every message waiting in the channel, in order.
RECURSIVE PollAll(_, _, _, _)
PollAll(ws, msgs, t, oks) ==
  IF msgs = <<>> THEN ws
  ELSE PollAll(UNION {PollOne(w, Head(msgs), t, oks) : w \in ws}, Tail(msgs), t, oks)


rename_sample_Index(w, id, name, ok) ==
  LET r == w.r
  IN IF id > Len(r.samples) THEN w
     ELSE LET r1 == [r EXCEPT !.samples[id].name = name]
          IN World(r1, IF r.autosave THEN save_to_disk(r1, w.disk, ok) ELSE w.disk,
                   w.threads)

rename_sample_Rollback(w, id, name, ok) ==
  LET r == w.r
      hits == {i \in 1..Len(r.samples) : r.samples[i].id = id}
  IN IF hits = {} \/ (r.autosave /\ ~ok) THEN w
     ELSE LET r1 == [r EXCEPT !.samples[SetMin(hits)].name = name]
          IN World(r1, IF r.autosave THEN save_to_disk(r1, w.disk, ok) ELSE w.disk,
                   w.threads)

\* rename_sample: the first sample with that id; autosave when enabled.
rename_sample(w, id, name, ok) ==
  LET r == w.r
      hits == {i \in 1..Len(r.samples) : r.samples[i].id = id}
  IN IF hits = {} THEN w
     ELSE LET r1 == [r EXCEPT !.samples[SetMin(hits)].name = name]
          IN World(r1, IF r.autosave THEN save_to_disk(r1, w.disk, ok) ELSE w.disk,
                   w.threads)

\* delete_sample: retain the samples with another id; always re-persists.
KeepOthers(id, s) == s.id # id

delete_sample_Shared(w, id, ok) ==
  LET r1 == [w.r EXCEPT !.samples = SelectSeq(w.r.samples, LAMBDA s : KeepOthers(id, s))]
      gone == {w.r.samples[i].events : i \in {j \in 1..Len(w.r.samples) : w.r.samples[j].id = id}}
  IN World(r1, save_to_disk(r1, w.disk, ok),
           [i \in 1..Len(w.threads) |->
              IF w.threads[i].events \in gone
              THEN [w.threads[i] EXCEPT !.events =
                      [j \in 1..Len(@) |-> [@[j] EXCEPT !.key = Layout("?")]]]
              ELSE w.threads[i]])

delete_sample(w, id, ok) ==
  LET r1 == [w.r EXCEPT !.samples = SelectSeq(w.r.samples, LAMBDA s : KeepOthers(id, s))]
  IN World(r1, save_to_disk(r1, w.disk, ok), w.threads)

(***************************************************************************)
(* Files a user may put in place of the persisted file.                    *)
(***************************************************************************)
Ser(key, mode, delta_ms) == [key |-> key, mode |-> mode, delta_ms |-> delta_ms]

FileMixed ==
  Json(<<[id |-> 2, started_at |-> 0, name |-> "a",
          events |-> <<Ser("char:a", "Press", 0), Ser("Bogus", "Press", 1),
                       Ser("Space", "Release", 2)>>],
         [id |-> 1, started_at |-> 0, name |-> "b",
          events |-> <<Ser("other:Backspace", "Press", 1)>>]>>)

FileKeys ==
  Json(<<[id |-> 3, started_at |-> 7, name |-> "keys",
          events |-> <<Ser("Space", "Press", 0), Ser("Return", "Press", 1),
                       Ser("Tab", "Press", 2), Ser("Escape", "Press", 3),
                       Ser("UpArrow", "Press", 4), Ser("DownArrow", "Press", 5),
                       Ser("LeftArrow", "Press", 6), Ser("RightArrow", "Press", 7),
                       Ser("Shift", "Press", 8), Ser("Control", "Release", 9),
                       Ser("Alt", "Release", 10), Ser("Meta", "Release", 11),
                       Ser("char:k", "Press", 12), Ser("char:", "Press", 13),
                       Ser("char:ab", "Release", 14), Ser("space", "Press", 15)>>]>>)

FileDup ==
  Json(<<[id |-> 2, started_at |-> 0, name |-> "a",
          events |-> <<Ser("char:a", "Press", 0)>>],
         [id |-> 2, started_at |-> 0, name |-> "b",
          events |-> <<Ser("char:s", "Press", 4), Ser("char:s", "Release", 2)>>]>>)

ExternalFiles == {Missing, Blank, Malformed, Json(<<>>), FileMixed, FileKeys, FileDup}

(***************************************************************************)
(* The overlay (main.rs) and the listener thread around the MacroRecorder. *)
(***************************************************************************)
macroVars == <<recorder, channel, disk, play_threads>>

recordingVars == <<recording, start, current_events, app_samples, key_states>>

captureVars == <<recordingVars, app_threads>>

playbackVars == <<playback_stop, playing, playback_handle, handle_lock,
                  app_offset_ms, workers, watchers>>

appVars == <<captureVars, playbackVars>>

vars == <<macroVars, now, appVars>>

\* The threads that call into AppState: rdev's listener (handle_event) and
\* the thread that drives start_recording / stop_recording directly.
AppThreads == {"listener", "control"}

\* A thread outside any call; ret is where the current call returns to.
AppThreadIdle ==
  [pc |-> "idle", ret |-> "idle", event |-> <<"Press", "F9">>, start_at |-> 0,
   mapped |-> None, elapsed |-> 0, snapshot |-> <<>>,
   sample |-> <<>>, max_at |-> 0, handle |-> 0, joined |-> 0]

\* Nobody holds the mutex.
Free == <<>>

\* AppState::new.
InitApp ==
  /\ recording = FALSE
  /\ start = NoInstant
  /\ current_events = <<>>
  /\ app_samples = <<>>
  /\ key_states = EmptyMap
  /\ app_threads = [t \in AppThreads |-> AppThreadIdle]
  /\ playback_stop = FALSE
  /\ playing = FALSE
  /\ playback_handle = 0
  /\ handle_lock = Free
  /\ app_offset_ms = 0
  /\ workers = <<>>
  /\ watchers = <<>>

\* The MacroRecorder of main.rs before OverlayApp::new has loaded anything.
InitMacro ==
  /\ recorder = DefaultRecorder
  /\ channel = <<>>
  /\ disk = Missing
  /\ play_threads = <<>>

TheWorld == World(recorder, disk, play_threads)

\* One handler's effect: the recorder, the file and the threads become w's.
Becomes(w) ==
  /\ recorder' = w.r
  /\ disk' = w.disk
  /\ play_threads' = w.threads

\* OverlayApp::new: the default recorder, then load_from_disk("samples.json").
InitRecorder ==
  /\ disk \in ExternalFiles
  /\ recorder \in {load_from_disk(DefaultRecorder, disk, ok) : ok \in BOOLEAN}
  /\ channel = <<>>
  /\ now = 0
  /\ play_threads = <<>>
  /\ InitApp

\* Time passes.
Tick ==
  /\ now < MaxTime
  /\ now' = now + 1
  /\ UNCHANGED <<macroVars, appVars>>

\* Presses of the record hotkey waiting in the channel.
PendingToggles ==
  Cardinality({i \in 1..Len(channel) :
                 channel[i][2] = recorder.hotkey_toggle /\ channel[i][1] = "Press"})

\* Another session may start within the bounds: every running session and every
\* waiting press of the hotkey may still add a sample.
CanStart ==
  LET pending == PendingToggles + (IF recorder.is_recording THEN 1 ELSE 0)
  IN /\ Len(recorder.samples) + pending < MaxSamples
     /\ recorder.sample_counter + pending < MaxId

\* The keys whose edges the listener thread delivers in the capture runs.
CaptureKeys == {"KeyA", "Backspace", "F9"}

\* start_listener's callback: one key edge stamped with Instant::now().
ListenerSend(mode, raw_key) ==
  /\ Len(channel) < MaxChan
  /\ IF raw_key = recorder.hotkey_toggle
     THEN mode = "Press" => CanStart
     ELSE Len(recorder.live_events) + Len(channel) < MaxLive
  /\ raw_key = recorder.hotkey_playback => Len(play_threads) + Len(channel) < MaxThreads
  /\ channel' = Append(channel, <<mode, raw_key, now>>)
  /\ UNCHANGED <<recorder, disk, now, play_threads, appVars>>

\* update(): rec.poll_events() drains the channel.
PollEvents(oks) ==
  /\ channel # <<>>
  /\ \E w \in PollAll({TheWorld}, channel, now, oks) : Becomes(w)
  /\ channel' = <<>>
  /\ UNCHANGED <<now, appVars>>

\* The Start/Stop Recording button.
RecordButton(oks) ==
  /\ IF recorder.is_recording
     THEN \E ok \in oks : Becomes(finish_recording(TheWorld, ok))
     ELSE /\ CanStart
          /\ Becomes(World(start_recording(recorder, now), disk, play_threads))
  /\ UNCHANGED <<channel, now, appVars>>

\* The "Save samples" button.
SaveSamples(oks) ==
  /\ \E ok \in oks : disk' = save_to_disk(recorder, disk, ok)
  /\ UNCHANGED <<recorder, channel, now, play_threads, appVars>>

\* The "Load samples" button.
LoadSamples(oks) ==
  /\ \E ok \in oks : recorder' = load_from_disk(recorder, disk, ok)
  /\ UNCHANGED <<channel, disk, now, play_threads, appVars>>

\* A sample's name edited in the list.
RenameSample(oks) ==
  /\ \E id \in 1..MaxId, ok \in oks : Becomes(rename_sample(TheWorld, id, "x", ok))
  /\ UNCHANGED <<channel, now, appVars>>

\* A sample's Delete button.
DeleteSample(oks) ==
  /\ \E id \in 1..MaxId, ok \in oks : Becomes(delete_sample(TheWorld, id, ok))
  /\ UNCHANGED <<channel, now, appVars>>

\* The file is replaced from outside the program.
ExternalWrite ==
  /\ \E f \in ExternalFiles : disk' = f
  /\ UNCHANGED <<recorder, channel, now, play_threads, appVars>>

\* A fresh start: no persisted file yet.
InitCapture ==
  /\ disk = Missing
  /\ recorder = load_from_disk(DefaultRecorder, disk, TRUE)
  /\ channel = <<>>
  /\ now = 0
  /\ play_threads = <<>>
  /\ InitApp

\* Every write to the file succeeds.
DiskWorks == {TRUE}

\* Recording sessions under the clock: the listener, the poll and the button.
NextCapture ==
  \/ Tick
  \/ \E mode \in {"Press", "Release"}, raw_key \in CaptureKeys : ListenerSend(mode, raw_key)
  \/ PollEvents(DiskWorks)
  \/ RecordButton(DiskWorks)

SpecCapture == InitCapture /\ [][NextCapture]_vars

\* The keys the listener delivers in the store runs.
StoreKeys == {"KeyA", "F9"}

\* The store and its file: sessions, save, load, rename, delete.
NextStore ==
  \/ \E raw_key \in StoreKeys : ListenerSend("Press", raw_key)
  \/ PollEvents(DiskWorks)
  \/ RecordButton(DiskWorks)
  \/ SaveSamples(DiskWorks)
  \/ LoadSamples(BOOLEAN)
  \/ RenameSample(DiskWorks)
  \/ DeleteSample(DiskWorks)
  \/ ExternalWrite

SpecStore == InitRecorder /\ [][NextStore]_vars

(***************************************************************************)
(* Sessions with the overlay's controls: the allow-list and Clear.         *)
(***************************************************************************)
\* set_allowed_keys: the list replaces the previous one.
set_allowed_keys(r, keys) == [r EXCEPT !.allowed_keys = keys]

\* clear: the live buffer and the held set.
clear(r) == [r EXCEPT !.live_events = <<>>, !.pressed_keys = {}]

\* The lists the "Apply" button installs (parse_allowed of the text field).
AllowedLists == {<<>>, <<Layout("a")>>}

\* The "Apply" button of the allowed-keys field.
ApplyAllowed ==
  /\ \E list \in AllowedLists : recorder' = set_allowed_keys(recorder, list)
  /\ UNCHANGED <<channel, disk, now, play_threads, appVars>>

\* The "Clear" button.
ClearButton ==
  /\ recorder' = clear(recorder)
  /\ UNCHANGED <<channel, disk, now, play_threads, appVars>>

\* The keys whose edges the listener delivers in the session runs.
SessionKeys == {"KeyA", "KeyS", "Backspace", "F9"}

\* Sessions under the clock with the allow-list and Clear.
NextSession ==
  \/ Tick
  \/ \E mode \in {"Press", "Release"}, raw_key \in SessionKeys : ListenerSend(mode, raw_key)
  \/ PollEvents(DiskWorks)
  \/ RecordButton(DiskWorks)
  \/ ApplyAllowed
  \/ ClearButton

SpecSession == InitCapture /\ [][NextSession]_vars

\* Sessions, rename and delete over a file whose writes may fail.
NextFailingDisk ==
  \/ \E raw_key \in StoreKeys : ListenerSend("Press", raw_key)
  \/ PollEvents(BOOLEAN)
  \/ RecordButton(BOOLEAN)
  \/ RenameSample(BOOLEAN)
  \/ DeleteSample(BOOLEAN)

SpecFailingDisk == InitCapture /\ [][NextFailingDisk]_vars

\* The store and the file the program itself writes: sessions, delete, save
\* and load, starting without a file.
NextIds ==
  \/ \E raw_key \in StoreKeys : ListenerSend("Press", raw_key)
  \/ PollEvents(DiskWorks)
  \/ RecordButton(DiskWorks)
  \/ SaveSamples(DiskWorks)
  \/ LoadSamples(DiskWorks)
  \/ DeleteSample(DiskWorks)

SpecIds == InitCapture /\ [][NextIds]_vars

(***************************************************************************)
(* Sessions with configurable hotkeys.                                     *)
(***************************************************************************)
\* str::to_uppercase on the texts typed into the hotkey fields.
to_uppercase(input) ==
  CASE input = "f9" -> "F9"
    [] input = "space" -> "SPACE"
    [] input = "a" -> "A"
    [] OTHER -> input

\* main.rs parse_rdev_key: F1..F12, SPACE and single letters, else None.
parse_rdev_key(input) ==
  LET text == to_uppercase(input)
  IN CASE text \in {"F1", "F2", "F3", "F4", "F5", "F6", "F7", "F8", "F9", "F10",
                    "F11", "F12"} -> [some |-> TRUE, key |-> text]
       [] text = "SPACE" -> [some |-> TRUE, key |-> "Space"]
       [] text \in {"A", "B", "C", "D", "E", "F", "G", "H", "I", "J", "K", "L", "M",
                    "N", "O", "P", "Q", "R", "S", "T", "U", "V", "W", "X", "Y", "Z"}
            -> [some |-> TRUE, key |-> "Key" \o text]
       [] OTHER -> [some |-> FALSE, key |-> ""]

\* set_hotkeys: both hotkeys are replaced.
set_hotkeys(r, toggle, playback) ==
  [r EXCEPT !.hotkey_toggle = toggle, !.hotkey_playback = playback]

\* Texts typed into the record-hotkey and the playback-hotkey fields.
ToggleInputs == {"f9", "space", "F13"}
PlaybackInputs == {"F10", "a"}

\* The hotkey fields lose focus: both texts must parse for the hotkeys to change.
\* Every edge waiting in the channel may become a toggle, so the fields are
\* applied only while the sessions that could follow stay within the bounds.
ApplyHotkeys ==
  /\ LET pending == Len(channel) + (IF recorder.is_recording THEN 1 ELSE 0)
     IN /\ Len(recorder.samples) + pending < MaxSamples
        /\ recorder.sample_counter + pending < MaxId
        /\ Len(play_threads) + Len(channel) < MaxThreads
  /\ \E ti \in ToggleInputs, pi \in PlaybackInputs :
       LET t == parse_rdev_key(ti)
           p == parse_rdev_key(pi)
       IN recorder' = IF t.some /\ p.some THEN set_hotkeys(recorder, t.key, p.key)
                      ELSE recorder
  /\ UNCHANGED <<channel, disk, now, play_threads, appVars>>

\* The keys whose edges the listener delivers in the hotkey runs.
HotkeyKeys == {"KeyA", "Space", "F9"}

\* The listener's callback; the Release of a mappable hotkey may be recorded,
\* so it is delivered only while the live buffer has room.
HotkeyEdge(mode, raw_key) ==
  /\ mode = "Release" => Len(recorder.live_events) + Len(channel) < MaxLive
  /\ ListenerSend(mode, raw_key)

NextHotkeys ==
  \/ \E mode \in {"Press", "Release"}, raw_key \in HotkeyKeys : HotkeyEdge(mode, raw_key)
  \/ PollEvents(DiskWorks)
  \/ ApplyHotkeys

SpecHotkeys == InitCapture /\ [][NextHotkeys]_vars

(***************************************************************************)
(* MacroRecorder::play_events: the spawned thread, one step per clock read *)
(* or injector call.  Time is in milliseconds.                             *)
(***************************************************************************)
\* play_events, line 434: the last millisecond of a wait is spun, not slept.
SpinWindow == 1

\* play_events, lines 422-428: the target of the event the thread is at.
Target_NoKeyAdj(th) ==
  LET evt == th.events[th.idx]
      base == evt.delta_ms + th.offset_ms
  IN IF base >= 0 THEN base ELSE 0

Target(th) ==
  LET evt == th.events[th.idx]
      key_adj == MapGet(th.per_key_offset, key_to_string(evt.key))
      base == evt.delta_ms + th.offset_ms + key_adj
  IN IF base >= 0 THEN base ELSE 0

\* Instant::saturating_duration_since(start).
Elapsed(th) == Max0(now - th.start)

PlayFrame == UNCHANGED <<recorder, channel, disk, now, appVars>>

\* The clock of the playback runs.
TickPlay ==
  /\ now < MaxPlayTime
  /\ now' = now + 1
  /\ UNCHANGED <<macroVars, appVars>>

\* play_events, lines 419-420: the thread starts and reads the clock.
play_events_start(i) ==
  /\ play_threads[i].pc = "spawned"
  /\ play_threads' = [play_threads EXCEPT ![i].start = now, ![i].pc = "next"]
  /\ PlayFrame

\* play_events, lines 421-436: the next event's target; sleep, spin or deliver.
play_events_target(i) ==
  /\ play_threads[i].pc = "next"
  /\ LET th == play_threads[i]
     IN play_threads' =
          [play_threads EXCEPT ![i] =
             IF th.idx > Len(th.events) THEN [th EXCEPT !.pc = "done"]
             ELSE LET target == Target(th)
                      remain == target - Elapsed(th)
                  IN IF target > Elapsed(th)
                     THEN IF remain > SpinWindow
                          THEN [th EXCEPT !.target = target, !.pc = "sleep",
                                          !.wake = now + remain - SpinWindow]
                          ELSE [th EXCEPT !.target = target, !.pc = "spin"]
                     ELSE [th EXCEPT !.target = target, !.pc = "deliver"]]
  /\ PlayFrame

\* thread::sleep returns, no earlier than asked.
play_events_wake(i) ==
  /\ play_threads[i].pc = "sleep"
  /\ now >= play_threads[i].wake
  /\ play_threads' = [play_threads EXCEPT ![i].pc = "spin"]
  /\ PlayFrame

\* play_events, lines 437-439: the spin loop ends once the target is reached.
play_events_spin(i) ==
  /\ play_threads[i].pc = "spin"
  /\ ~(Elapsed(play_threads[i]) < play_threads[i].target)
  /\ play_threads' = [play_threads EXCEPT ![i].pc = "deliver"]
  /\ PlayFrame

\* play_events, lines 441-448: key_down or key_up on the injector.
play_events_deliver(i) ==
  /\ play_threads[i].pc = "deliver"
  /\ LET th == play_threads[i]
         evt == th.events[th.idx]
     IN play_threads' =
          [play_threads EXCEPT ![i].calls = Append(th.calls, <<evt.mode, evt.key>>),
                               ![i].idx = th.idx + 1,
                               ![i].target = 0,
                               ![i].wake = 0,
                               ![i].pc = "next"]
  /\ PlayFrame

RecEvent(key, mode, delta_ms) == [key |-> key, mode |-> mode, delta_ms |-> delta_ms]

\* Arguments of play_events: timelines, global offsets and per-key maps.
PlayTimelines ==
  {<<>>,
   <<RecEvent(Layout("a"), "Press", 5)>>,
   <<RecEvent(Layout("a"), "Press", 0), RecEvent(Layout("a"), "Release", 3)>>,
   <<RecEvent(Named("Space"), "Press", 5), RecEvent(Layout("a"), "Release", 3)>>}

PlayOffsets == {-1000, -2, 0, 2}

PlayKeyOffsets ==
  {EmptyMap, MapInsert(EmptyMap, "char:a", -30), MapInsert(EmptyMap, "char:a", 2),
   MapInsert(EmptyMap, "Space", 1)}

\* One call of play_events with any of these arguments.
InitPlayEvents ==
  /\ recorder = DefaultRecorder
  /\ channel = <<>>
  /\ disk = Missing
  /\ now = 0
  /\ \E events \in PlayTimelines, offset_ms \in PlayOffsets, per_key_offset \in PlayKeyOffsets :
       play_threads = <<Thread(events, offset_ms, per_key_offset)>>
  /\ InitApp

NextPlayEvents ==
  \/ TickPlay
  \/ \E i \in 1..Len(play_threads) : play_events_start(i)
  \/ \E i \in 1..Len(play_threads) : play_events_target(i)
  \/ \E i \in 1..Len(play_threads) : play_events_wake(i)
  \/ \E i \in 1..Len(play_threads) : play_events_spin(i)
  \/ \E i \in 1..Len(play_threads) : play_events_deliver(i)

SpecPlayEvents == InitPlayEvents /\ [][NextPlayEvents]_vars

(***************************************************************************)
(* Play requests of the overlay against the threads they spawn.            *)
(***************************************************************************)
\* play_sample: the first sample with that id, when there is one.
play_sample(w, sample_id) ==
  LET hits == {i \in 1..Len(w.r.samples) : w.r.samples[i].id = sample_id}
  IN IF hits = {} THEN w
     ELSE play_events(w, w.r.samples[SetMin(hits)].events,
                      w.r.playback_offset_ms, w.r.per_key_offset)

play_timing_map(w, events) ==
  play_events(w, events, w.r.playback_offset_ms, w.r.per_key_offset)

\* A sample's Play button.
PlaySampleButton ==
  /\ Len(play_threads) < MaxThreads
  /\ \E id \in 1..MaxId : Becomes(play_sample(TheWorld, id))
  /\ UNCHANGED <<channel, now, appVars>>

\* The "Play Back (avg)" button: the aggregate computed by update(), unless empty.
PlayAverageButton ==
  /\ Len(play_threads) < MaxThreads
  /\ \E timing_avg \in timing_map(recorder) :
       Becomes(IF timing_avg # <<>> THEN play_timing_map(TheWorld, timing_avg)
               ELSE TheWorld)
  /\ UNCHANGED <<channel, now, appVars>>

\* Positions of the "Playback offset (ms)" slider, within -50..=50.
SliderValues == {-50, 0}

OffsetSlider ==
  /\ \E v \in SliderValues : recorder' = [recorder EXCEPT !.playback_offset_ms = v]
  /\ UNCHANGED <<channel, disk, now, play_threads, appVars>>

\* The store the playback runs start from.
FilePlay ==
  Json(<<[id |-> 1, started_at |-> 0, name |-> "a",
          events |-> <<Ser("char:a", "Press", 0), Ser("char:a", "Release", 2)>>],
         [id |-> 2, started_at |-> 0, name |-> "b",
          events |-> <<Ser("Space", "Press", 1)>>],
         [id |-> 3, started_at |-> 0, name |-> "c", events |-> <<>>]>>)

InitMacroPlay ==
  /\ disk = FilePlay
  /\ recorder = load_from_disk(DefaultRecorder, disk, TRUE)
  /\ channel = <<>>
  /\ now = 0
  /\ play_threads = <<>>
  /\ InitApp

NextMacroPlay ==
  \/ Tick
  \/ PlaySampleButton
  \/ PlayAverageButton
  \/ OffsetSlider
  \/ ListenerSend("Press", "F10")
  \/ PollEvents(DiskWorks)
  \/ \E i \in 1..Len(play_threads) : play_events_start(i)
  \/ \E i \in 1..Len(play_threads) : play_events_target(i)
  \/ \E i \in 1..Len(play_threads) : play_events_wake(i)
  \/ \E i \in 1..Len(play_threads) : play_events_spin(i)
  \/ \E i \in 1..Len(play_threads) : play_events_deliver(i)

SpecMacroPlay == InitMacroPlay /\ [][NextMacroPlay]_vars

(***************************************************************************)
(* The aggregator on its own: timing_map applied to the stores a samples   *)
(* file can hold, under the modes the settings panel can select.           *)
(***************************************************************************)
AggVals == {10, 12, 1000}

\* The events a stored sample has at its first and at its second position.
AggFirst ==
  {[key |-> Layout("a"), mode |-> "Press", delta_ms |-> v] : v \in AggVals}
    \cup {[key |-> Named("Space"), mode |-> "Press", delta_ms |-> 10],
          [key |-> Layout("a"), mode |-> "Release", delta_ms |-> 10]}

AggSecond == {[key |-> Layout("a"), mode |-> "Press", delta_ms |-> 10]}

AggTimelines ==
  {<<>>} \cup {<<e>> : e \in AggFirst} \cup {<<e, f>> : e \in AggFirst, f \in AggSecond}

\* Two one-event samples with the offsets 40 and 60 for the same key and edge.
AggMeanExample ==
  <<<<[key |-> Layout("a"), mode |-> "Press", delta_ms |-> 40]>>,
    <<[key |-> Layout("a"), mode |-> "Press", delta_ms |-> 60]>>>>

AggStores ==
  UNION {[1..n -> AggTimelines] : n \in 0..MaxAggSamples} \cup {AggMeanExample}

AggSamples(store) ==
  [i \in 1..Len(store) |->
     [id |-> i, started_at |-> 0, name |-> SampleName(i), events |-> store[i]]]

\* Values of the "Outlier k" field, within 0.5..=5.0.
OutlierKs == {[num |-> 1, den |-> 2], [num |-> 1, den |-> 1], [num |-> 2, den |-> 1]}

OutlierDrag ==
  /\ \E k \in OutlierKs : recorder' = [recorder EXCEPT !.outlier_k = k]
  /\ UNCHANGED <<channel, disk, now, play_threads, appVars>>

MedianCheckbox ==
  /\ recorder' = [recorder EXCEPT !.use_median = ~recorder.use_median]
  /\ UNCHANGED <<channel, disk, now, play_threads, appVars>>

InitTimingMap ==
  /\ \E store \in AggStores : disk = Json(to_serializable(AggSamples(store)))
  /\ recorder = load_from_disk(DefaultRecorder, disk, TRUE)
  /\ channel = <<>>
  /\ now = 0
  /\ play_threads = <<>>
  /\ InitApp

\* The "Play Back (avg)" button while fewer than MaxAggThreads threads exist.
PlayBackAvg == Len(play_threads) < MaxAggThreads /\ PlayAverageButton

NextTimingMap ==
  \/ OutlierDrag
  \/ MedianCheckbox
  \/ PlayBackAvg

SpecTimingMap == InitTimingMap /\ [][NextTimingMap]_vars


(***************************************************************************)
(* Playback against the store: a sample or the aggregate is played while   *)
(* samples are renamed, deleted, loaded and recorded.                      *)
(***************************************************************************)
\* A sample's Play button while fewer than MaxAggThreads threads exist.
PlayStored == Len(play_threads) < MaxAggThreads /\ PlaySampleButton

\* The files put in place of the persisted file while a playback runs.
PlayStoreFiles == {Json(<<>>), FileMixed}

ReplaceFile ==
  /\ \E f \in PlayStoreFiles : disk' = f
  /\ UNCHANGED <<recorder, channel, now, play_threads, appVars>>

NextPlayStore ==
  \/ Tick
  \/ PlayStored
  \/ PlayBackAvg
  \/ RenameSample(DiskWorks)
  \/ DeleteSample(DiskWorks)
  \/ LoadSamples(DiskWorks)
  \/ ReplaceFile
  \/ RecordButton(DiskWorks)
  \/ \E i \in 1..Len(play_threads) : play_events_start(i)
  \/ \E i \in 1..Len(play_threads) : play_events_target(i)
  \/ \E i \in 1..Len(play_threads) : play_events_wake(i)
  \/ \E i \in 1..Len(play_threads) : play_events_spin(i)
  \/ \E i \in 1..Len(play_threads) : play_events_deliver(i)

SpecPlayStore == InitMacroPlay /\ [][NextPlayStore]_vars

(***************************************************************************)
(* The store under every operation of the recorder but load.               *)
(***************************************************************************)
\* The key whose edges the listener delivers.
SampleKeys == {"KeyA"}

\* The files the store was loaded from at startup: ids 2, 2 and ids 2, 1.
SampleFiles == {FileDup, FileMixed}

InitSamples ==
  /\ disk \in SampleFiles
  /\ recorder = load_from_disk(DefaultRecorder, disk, TRUE)
  /\ channel = <<>>
  /\ now = 0
  /\ play_threads = <<>>
  /\ InitApp

\* Start, stop, edges, rename, delete, aggregation and play; no load.
NextSamples ==
  \/ Tick
  \/ \E raw_key \in SampleKeys : ListenerSend("Press", raw_key)
  \/ PollEvents(DiskWorks)
  \/ RecordButton(DiskWorks)
  \/ RenameSample(DiskWorks)
  \/ DeleteSample(DiskWorks)
  \/ PlayStored
  \/ PlayBackAvg
  \/ \E i \in 1..Len(play_threads) : play_events_start(i)
  \/ \E i \in 1..Len(play_threads) : play_events_target(i)
  \/ \E i \in 1..Len(play_threads) : play_events_wake(i)
  \/ \E i \in 1..Len(play_threads) : play_events_spin(i)
  \/ \E i \in 1..Len(play_threads) : play_events_deliver(i)

SpecSamples == InitSamples /\ [][NextSamples]_vars


(***************************************************************************)
(* AppState (state.rs): recording.  Every access to an atomic or a mutex   *)
(* is one step of the calling thread.                                      *)
(***************************************************************************)
\* state.rs convert_key: rdev key -> enigo key, None when not mapped.
convert_key(key) ==
  CASE key \in {"KeyA", "KeyB", "KeyC", "KeyD", "KeyE", "KeyF", "KeyG", "KeyH",
                "KeyI", "KeyJ", "KeyK", "KeyL", "KeyM", "KeyN", "KeyO", "KeyP",
                "KeyQ", "KeyR", "KeyS", "KeyT", "KeyU", "KeyV", "KeyW", "KeyX",
                "KeyY", "KeyZ"} ->
         Layout([c \in {"A", "B", "C", "D", "E", "F", "G", "H", "I", "J", "K", "L", "M",
                        "N", "O", "P", "Q", "R", "S", "T", "U", "V", "W", "X", "Y", "Z"} |->
                   CASE c = "A" -> "a" [] c = "B" -> "b" [] c = "C" -> "c" [] c = "D" -> "d"
                     [] c = "E" -> "e" [] c = "F" -> "f" [] c = "G" -> "g" [] c = "H" -> "h"
                     [] c = "I" -> "i" [] c = "J" -> "j" [] c = "K" -> "k" [] c = "L" -> "l"
                     [] c = "M" -> "m" [] c = "N" -> "n" [] c = "O" -> "o" [] c = "P" -> "p"
                     [] c = "Q" -> "q" [] c = "R" -> "r" [] c = "S" -> "s" [] c = "T" -> "t"
                     [] c = "U" -> "u" [] c = "V" -> "v" [] c = "W" -> "w" [] c = "X" -> "x"
                     [] c = "Y" -> "y" [] c = "Z" -> "z"][SubSeq(key, 4, 4)])
    [] key \in {"Num0", "Num1", "Num2", "Num3", "Num4", "Num5", "Num6", "Num7",
                "Num8", "Num9"} -> Layout(SubSeq(key, 4, 4))
    [] key \in {"Space", "Return", "Backspace", "Tab", "Escape", "UpArrow",
                "DownArrow", "LeftArrow", "RightArrow"} -> Named(key)
    [] key \in {"ShiftLeft", "ShiftRight"} -> Named("Shift")
    [] key \in {"ControlLeft", "ControlRight"} -> Named("Control")
    [] key \in {"Alt", "AltGr"} -> Named("Alt")
    [] OTHER -> None

\* schema.rs TimedEvent; action is Down(key) or Up(key).
TimedEvent(at, action, key) == [at |-> at, action |-> action, key |-> key]

\* state.rs Sample.
AppSample(name, events) == [name |-> name, events |-> events]

\* What the recording steps leave alone.
CaptureFrame == UNCHANGED <<macroVars, now, playbackVars>>

Goto(t, pc) == app_threads' = [app_threads EXCEPT ![t].pc = pc]

\* The call of thread t returns: to the caller's next step, or out of AppState.
Return(t) ==
  LET th == app_threads[t]
  IN app_threads' =
       [app_threads EXCEPT ![t] =
          IF th.ret = "idle" THEN AppThreadIdle
          ELSE [th EXCEPT !.pc = th.ret, !.ret = "idle"]]

\* The controlling thread calls start_recording when no session is running.
ControlStart ==
  /\ app_threads["control"].pc = "idle"
  /\ ~recording
  /\ Len(app_samples) < MaxAppSamples
  /\ Goto("control", "start_clear")
  /\ UNCHANGED <<recording, start, current_events, app_samples, key_states>>
  /\ CaptureFrame

\* The controlling thread calls stop_recording.
ControlStop ==
  /\ app_threads["control"].pc = "idle"
  /\ Goto("control", "stop_swap")
  /\ UNCHANGED <<recording, start, current_events, app_samples, key_states>>
  /\ CaptureFrame

\* start_recording, line 60: the live buffer is cleared.
start_recording_clear(t) ==
  /\ app_threads[t].pc = "start_clear"
  /\ Len(app_samples) < MaxAppSamples
  /\ current_events' = <<>>
  /\ Goto(t, "start_set")
  /\ UNCHANGED <<recording, start, app_samples, key_states>>
  /\ CaptureFrame

\* start_recording, line 61: the session clock starts.
start_recording_set(t) ==
  /\ app_threads[t].pc = "start_set"
  /\ start' = SomeInstant(now)
  /\ Goto(t, "start_store")
  /\ UNCHANGED <<recording, current_events, app_samples, key_states>>
  /\ CaptureFrame

\* start_recording, line 62: the flag is raised.
start_recording_store(t) ==
  /\ app_threads[t].pc = "start_store"
  /\ recording' = TRUE
  /\ Return(t)
  /\ UNCHANGED <<start, current_events, app_samples, key_states>>
  /\ CaptureFrame

\* stop_recording, lines 66-69: swap(false); nothing more when it was not set.
stop_recording_swap(t) ==
  /\ app_threads[t].pc = "stop_swap"
  /\ recording' = FALSE
  /\ IF recording THEN Goto(t, "stop_snapshot") ELSE Return(t)
  /\ UNCHANGED <<start, current_events, app_samples, key_states>>
  /\ CaptureFrame

\* stop_recording, line 70: the live buffer is cloned.
stop_recording_snapshot(t) ==
  /\ app_threads[t].pc = "stop_snapshot"
  /\ app_threads' = [app_threads EXCEPT ![t].snapshot = current_events,
                                        ![t].pc = "stop_push"]
  /\ UNCHANGED <<recording, start, current_events, app_samples, key_states>>
  /\ CaptureFrame

\* stop_recording, lines 71-75: a non-empty snapshot becomes "Sample <n>".
stop_recording_push(t) ==
  /\ app_threads[t].pc = "stop_push"
  /\ app_samples' =
       IF app_threads[t].snapshot # <<>>
       THEN Append(app_samples,
                   AppSample("Sample " \o ToString(Len(app_samples) + 1),
                             app_threads[t].snapshot))
       ELSE app_samples
  /\ Return(t)
  /\ UNCHANGED <<recording, start, current_events, key_states>>
  /\ CaptureFrame

\* rdev calls handle_event with one key edge.
Deliver(mode, raw_key) ==
  /\ app_threads["listener"].pc = "idle"
  /\ Len(current_events) < MaxLive
  /\ (mode = "Press" /\ raw_key = "F9" /\ ~recording) => Len(app_samples) < MaxAppSamples
  /\ app_threads' = [app_threads EXCEPT !["listener"].event = <<mode, raw_key>>,
                                        !["listener"].pc = "hotkeys"]
  /\ UNCHANGED <<recording, start, current_events, app_samples, key_states>>
  /\ CaptureFrame

\* handle_event, lines 178-189: F9 pressed toggles the recording.
handle_event_F9 ==
  /\ app_threads["listener"].pc = "hotkeys"
  /\ app_threads["listener"].event = <<"Press", "F9">>
  /\ Goto("listener", IF recording THEN "stop_swap" ELSE "start_clear")
  /\ UNCHANGED <<recording, start, current_events, app_samples, key_states>>
  /\ CaptureFrame

\* handle_event, lines 205-207: any other edge is dropped unless recording.
handle_event_recording ==
  /\ app_threads["listener"].pc = "hotkeys"
  /\ app_threads["listener"].event \notin {<<"Press", "F9">>, <<"Press", "F10">>}
  /\ IF recording THEN Goto("listener", "read_start") ELSE Return("listener")
  /\ UNCHANGED <<recording, start, current_events, app_samples, key_states>>
  /\ CaptureFrame

\* handle_event, lines 209-211: the session clock is read.
handle_event_start_at ==
  /\ app_threads["listener"].pc = "read_start"
  /\ IF start.some
     THEN app_threads' = [app_threads EXCEPT !["listener"].start_at = start.at,
                                            !["listener"].pc = "convert"]
     ELSE Return("listener")
  /\ UNCHANGED <<recording, start, current_events, app_samples, key_states>>
  /\ CaptureFrame

\* handle_event, lines 213-217 and 226-228: a mapped key updates key_states.
handle_event_convert ==
  /\ app_threads["listener"].pc = "convert"
  /\ LET mapped == convert_key(app_threads["listener"].event[2])
     IN IF mapped = None
        THEN /\ Return("listener")
             /\ UNCHANGED key_states
        ELSE /\ key_states' = MapInsert(key_states, mapped,
                                        app_threads["listener"].event[1] = "Press")
             /\ app_threads' = [app_threads EXCEPT !["listener"].mapped = mapped,
                                                   !["listener"].pc = "recheck"]
  /\ UNCHANGED <<recording, start, current_events, app_samples>>
  /\ CaptureFrame

\* handle_event, lines 219 and 229: the flag is read again.
handle_event_recheck ==
  /\ app_threads["listener"].pc = "recheck"
  /\ IF recording THEN Goto("listener", "elapsed") ELSE Return("listener")
  /\ UNCHANGED <<recording, start, current_events, app_samples, key_states>>
  /\ CaptureFrame

\* push_event, line 241: Instant::now().duration_since(start), 0 when negative.
push_event_elapsed ==
  /\ app_threads["listener"].pc = "elapsed"
  /\ app_threads' = [app_threads EXCEPT
                       !["listener"].elapsed = Max0(now - app_threads["listener"].start_at),
                       !["listener"].pc = "push"]
  /\ UNCHANGED <<recording, start, current_events, app_samples, key_states>>
  /\ CaptureFrame

\* push_event, lines 242-244: the event is appended under the lock.
push_event_push ==
  /\ app_threads["listener"].pc = "push"
  /\ current_events' =
       Append(current_events,
              TimedEvent(app_threads["listener"].elapsed,
                         IF app_threads["listener"].event[1] = "Press" THEN "Down" ELSE "Up",
                         app_threads["listener"].mapped))
  /\ Return("listener")
  /\ UNCHANGED <<recording, start, app_samples, key_states>>
  /\ CaptureFrame

\* The keys whose edges rdev delivers in the AppState recording runs.
AppKeys == {"KeyA", "F9"}

InitAppCapture ==
  /\ InitMacro
  /\ now = 0
  /\ InitApp

\* AppState recording: the listener thread against the controlling thread.
NextAppCapture ==
  \/ Tick
  \/ \E mode \in {"Press", "Release"}, raw_key \in AppKeys : Deliver(mode, raw_key)
  \/ handle_event_F9
  \/ handle_event_recording
  \/ handle_event_start_at
  \/ handle_event_convert
  \/ handle_event_recheck
  \/ push_event_elapsed
  \/ push_event_push
  \/ ControlStart
  \/ ControlStop
  \/ \E t \in AppThreads : start_recording_clear(t)
  \/ \E t \in AppThreads : start_recording_set(t)
  \/ \E t \in AppThreads : start_recording_store(t)
  \/ \E t \in AppThreads : stop_recording_swap(t)
  \/ \E t \in AppThreads : stop_recording_snapshot(t)
  \/ \E t \in AppThreads : stop_recording_push(t)

SpecAppCapture == InitAppCapture /\ [][NextAppCapture]_vars

(***************************************************************************)
(* AppState (state.rs) and macro_play.rs: playback.  The clock counts      *)
(* units of 100 microseconds.                                              *)
(***************************************************************************)
\* Duration::from_millis and Duration::from_micros in clock units.
from_millis(ms) == ms * 10
from_micros(us) == us \div 100

\* wait_until, lines 72-73: sleep above 500 us remaining, 200 us short of it.
SleepThreshold == from_micros(500)
SleepGuard == from_micros(200)

\* playback_sample, line 109: the watcher sleeps 300 ms past the last event.
WatcherGrace == from_millis(300)

\* macro_play.rs apply_offset (and its copy in state.rs): at + offset, or
\* at.saturating_sub(|offset|) for a negative offset.
apply_offset(at, offset_ms) ==
  IF offset_ms >= 0 THEN at + from_millis(offset_ms)
  ELSE IF at >= from_millis(0 - offset_ms) THEN at - from_millis(0 - offset_ms) ELSE 0

\* The thread spawned by play_timeline_async, before it has run.
Worker(events, offset_ms) ==
  [events |-> events, offset_ms |-> offset_ms, pc |-> "spawned", idx |-> 1,
   start |-> 0, scheduled |-> 0, wake |-> 0, broke |-> "", exit |-> "", calls |-> <<>>]

\* The watcher thread of playback_sample, asleep until wake.
Watcher(wake) == [wake |-> wake, pc |-> "sleep", joined |-> 0]

WorkerFrame ==
  /\ UNCHANGED <<macroVars, now, captureVars>>
  /\ UNCHANGED <<playback_stop, playing, playback_handle, handle_lock, app_offset_ms,
                 watchers>>

\* play_timeline_async, lines 17-18: the thread starts and reads the clock.
play_timeline_start(i) ==
  /\ workers[i].pc = "spawned"
  /\ workers' = [workers EXCEPT ![i].start = now, ![i].pc = "loop"]
  /\ WorkerFrame

\* play_timeline_async, lines 20-25: end of the timeline, stop observed, or the
\* next event's scheduled time.
play_timeline_loop(i) ==
  /\ workers[i].pc = "loop"
  /\ LET w == workers[i]
     IN workers' =
          [workers EXCEPT ![i] =
             IF w.idx > Len(w.events)
             THEN [w EXCEPT !.pc = "done", !.exit = "end", !.start = 0]
             ELSE IF playback_stop
             THEN [w EXCEPT !.pc = "done", !.exit = "stop", !.start = 0]
             ELSE [w EXCEPT !.scheduled = apply_offset(w.events[w.idx].at, w.offset_ms),
                            !.pc = "wait"]]
  /\ WorkerFrame

wait_until_NoThreshold(i) ==
  /\ workers[i].pc = "wait"
  /\ LET w == workers[i]
         elapsed == now - w.start
         remaining == w.scheduled - elapsed
     IN workers' =
          [workers EXCEPT ![i] =
             IF playback_stop THEN [w EXCEPT !.broke = "stop", !.pc = "deliver"]
             ELSE IF elapsed >= w.scheduled THEN [w EXCEPT !.broke = "due", !.pc = "deliver"]
             ELSE [w EXCEPT !.wake = now + Max0(remaining - SleepGuard), !.pc = "sleep"]]
  /\ WorkerFrame

\* wait_until, lines 63-78: one iteration that leaves the loop or goes to sleep
\* (an iteration that spins changes nothing).
wait_until(i) ==
  /\ workers[i].pc = "wait"
  /\ LET w == workers[i]
         elapsed == now - w.start
         remaining == w.scheduled - elapsed
     IN /\ playback_stop \/ elapsed >= w.scheduled \/ remaining > SleepThreshold
        /\ workers' =
             [workers EXCEPT ![i] =
                IF playback_stop THEN [w EXCEPT !.broke = "stop", !.pc = "deliver"]
                ELSE IF elapsed >= w.scheduled THEN [w EXCEPT !.broke = "due", !.pc = "deliver"]
                ELSE [w EXCEPT !.wake = now + (remaining - SleepGuard), !.pc = "sleep"]]
  /\ WorkerFrame

\* thread::sleep returns, no earlier than asked.
wait_until_wake(i) ==
  /\ workers[i].pc = "sleep"
  /\ now >= workers[i].wake
  /\ workers' = [workers EXCEPT ![i].pc = "wait", ![i].wake = 0]
  /\ WorkerFrame

\* The worker after the injector call for its current event.
Delivered_Twice(w) ==
  LET ev == w.events[w.idx]
  IN [w EXCEPT !.calls = w.calls \o <<<<ev.action, ev.key>>, <<ev.action, ev.key>>>>,
               !.idx = w.idx + 1, !.scheduled = 0, !.broke = "", !.pc = "loop"]

Delivered(w) ==
  LET ev == w.events[w.idx]
  IN [w EXCEPT !.calls = Append(w.calls, <<ev.action, ev.key>>),
               !.idx = w.idx + 1, !.scheduled = 0, !.broke = "", !.pc = "loop"]

\* play_timeline_async, lines 28-47: key_down or key_up on the injector.
play_timeline_deliver(i) ==
  /\ workers[i].pc = "deliver"
  /\ workers' = [workers EXCEPT ![i] = Delivered(workers[i])]
  /\ WorkerFrame

\* The fields of a thread of AppThreads change; the rest of the playback state
\* named in rest stays.
ThreadFrame(rest) == UNCHANGED rest /\ UNCHANGED <<macroVars, now, recordingVars>>

\* stop_playback, line 138: cancellation is requested.
stop_playback_store(t) ==
  /\ app_threads[t].pc = "sp_store"
  /\ playback_stop' = TRUE
  /\ Goto(t, "sp_take")
  /\ ThreadFrame(<<playing, playback_handle, handle_lock, app_offset_ms, workers, watchers>>)

\* stop_playback, line 139: the handle is taken under its mutex, which stays
\* held while there is a thread to join.
stop_playback_take(t) ==
  /\ app_threads[t].pc = "sp_take"
  /\ handle_lock = Free
  /\ IF playback_handle = 0
     THEN /\ Goto(t, "sp_clear")
          /\ UNCHANGED <<playback_handle, handle_lock>>
     ELSE /\ app_threads' = [app_threads EXCEPT ![t].joined = playback_handle,
                                               ![t].pc = "sp_join"]
          /\ playback_handle' = 0
          /\ handle_lock' = <<"thread", t>>
  /\ ThreadFrame(<<playback_stop, playing, app_offset_ms, workers, watchers>>)

\* stop_playback, line 140: join returns once the worker has terminated.
stop_playback_join_KeepLock(t) ==
  /\ app_threads[t].pc = "sp_join"
  /\ workers[app_threads[t].joined].pc = "done"
  /\ app_threads' = [app_threads EXCEPT ![t].joined = 0, ![t].pc = "sp_clear"]
  /\ ThreadFrame(<<playback_stop, playing, playback_handle, handle_lock, app_offset_ms, workers, watchers>>)

stop_playback_join(t) ==
  /\ app_threads[t].pc = "sp_join"
  /\ workers[app_threads[t].joined].pc = "done"
  /\ handle_lock' = Free
  /\ app_threads' = [app_threads EXCEPT ![t].joined = 0, ![t].pc = "sp_clear"]
  /\ ThreadFrame(<<playback_stop, playing, playback_handle, app_offset_ms, workers, watchers>>)

\* stop_playback, line 142.
stop_playback_clear(t) ==
  /\ app_threads[t].pc = "sp_clear"
  /\ playing' = FALSE
  /\ Return(t)
  /\ ThreadFrame(<<playback_stop, playback_handle, handle_lock, app_offset_ms, workers, watchers>>)

playback_sample_entry_NoCheck(t) ==
  /\ app_threads[t].pc = "ps_entry"
  /\ app_threads' = [app_threads EXCEPT ![t].pc = "sp_store", ![t].ret = "ps_unstop"]
  /\ ThreadFrame(playbackVars)

\* playback_sample, lines 89-93: nothing for an empty sample, else stop_playback().
playback_sample_entry(t) ==
  /\ app_threads[t].pc = "ps_entry"
  /\ IF app_threads[t].sample = <<>>
     THEN Return(t)
     ELSE app_threads' = [app_threads EXCEPT ![t].pc = "sp_store", ![t].ret = "ps_unstop"]
  /\ ThreadFrame(playbackVars)

\* playback_sample, line 94.
playback_sample_unstop(t) ==
  /\ app_threads[t].pc = "ps_unstop"
  /\ playback_stop' = FALSE
  /\ Goto(t, "ps_playing")
  /\ ThreadFrame(<<playing, playback_handle, handle_lock, app_offset_ms, workers, watchers>>)

\* playback_sample, line 95.
playback_sample_playing(t) ==
  /\ app_threads[t].pc = "ps_playing"
  /\ playing' = TRUE
  /\ Goto(t, "ps_spawn")
  /\ ThreadFrame(<<playback_stop, playback_handle, handle_lock, app_offset_ms, workers, watchers>>)

\* playback_sample, lines 96-103: the offset is read, max_at is computed over
\* the sample and play_timeline_async spawns the worker.
playback_sample_spawn(t) ==
  /\ app_threads[t].pc = "ps_spawn"
  /\ LET sample == app_threads[t].sample
     IN /\ workers' = Append(workers, Worker(sample, app_offset_ms))
        /\ app_threads' =
             [app_threads EXCEPT
                ![t].max_at = SetMax({apply_offset(sample[i].at, app_offset_ms) :
                                        i \in 1..Len(sample)}),
                ![t].handle = Len(workers) + 1,
                ![t].pc = "ps_store"]
  /\ ThreadFrame(<<playback_stop, playing, playback_handle, handle_lock, app_offset_ms, watchers>>)

\* playback_sample, line 104: the handle is stored under its mutex.
playback_sample_store(t) ==
  /\ app_threads[t].pc = "ps_store"
  /\ handle_lock = Free
  /\ playback_handle' = app_threads[t].handle
  /\ app_threads' = [app_threads EXCEPT ![t].handle = 0, ![t].sample = <<>>,
                                        ![t].pc = "ps_watch"]
  /\ ThreadFrame(<<playback_stop, playing, handle_lock, app_offset_ms, workers, watchers>>)

\* playback_sample, lines 106-114: the watcher is spawned and starts its sleep.
playback_sample_watch(t) ==
  /\ app_threads[t].pc = "ps_watch"
  /\ watchers' = Append(watchers, Watcher(now + app_threads[t].max_at + WatcherGrace))
  /\ Return(t)
  /\ ThreadFrame(<<playback_stop, playing, playback_handle, handle_lock, app_offset_ms, workers>>)

\* playback_latest, lines 79-85: the last sample, if any, goes to playback_sample.
playback_latest(t) ==
  /\ app_threads[t].pc = "pl_entry"
  /\ IF app_samples = <<>>
     THEN Return(t)
     ELSE app_threads' =
            [app_threads EXCEPT ![t].sample = app_samples[Len(app_samples)].events,
                                ![t].pc = "ps_entry"]
  /\ ThreadFrame(playbackVars)

\* handle_event, lines 190-200: F10 pressed stops the playback or starts one.
handle_event_F10 ==
  /\ app_threads["listener"].pc = "hotkeys"
  /\ app_threads["listener"].event = <<"Press", "F10">>
  /\ IF playing
     THEN Goto("listener", "sp_store")
     ELSE app_threads' = [app_threads EXCEPT !["listener"].pc = "stop_swap",
                                            !["listener"].ret = "pl_entry"]
  /\ ThreadFrame(playbackVars)

WatcherFrame(rest) == UNCHANGED rest /\ UNCHANGED <<macroVars, now, captureVars>>

\* The watcher, lines 109-110: awake, it takes the handle under the mutex, which
\* stays held while there is a thread to join.
watcher_take(k) ==
  /\ watchers[k].pc = "sleep"
  /\ now >= watchers[k].wake
  /\ handle_lock = Free
  /\ IF playback_handle = 0
     THEN /\ watchers' = [watchers EXCEPT ![k].pc = "clear"]
          /\ UNCHANGED <<playback_handle, handle_lock>>
     ELSE /\ watchers' = [watchers EXCEPT ![k].joined = playback_handle, ![k].pc = "join"]
          /\ playback_handle' = 0
          /\ handle_lock' = <<"watcher", k>>
  /\ WatcherFrame(<<playback_stop, playing, app_offset_ms, workers>>)

\* The watcher, line 111: join returns once the worker has terminated.
watcher_join(k) ==
  /\ watchers[k].pc = "join"
  /\ workers[watchers[k].joined].pc = "done"
  /\ handle_lock' = Free
  /\ watchers' = [watchers EXCEPT ![k].joined = 0, ![k].pc = "clear"]
  /\ WatcherFrame(<<playback_stop, playing, playback_handle, app_offset_ms, workers>>)

\* The watcher, line 113.
watcher_clear(k) ==
  /\ watchers[k].pc = "clear"
  /\ playing' = FALSE
  /\ watchers' = [watchers EXCEPT ![k].pc = "done", ![k].wake = 0]
  /\ WatcherFrame(<<playback_stop, playback_handle, handle_lock, app_offset_ms, workers>>)

\* A thread has asked for a playback whose worker is not spawned yet.
PlayPending(t) ==
  \/ app_threads[t].pc \in {"hotkeys", "stop_swap", "pl_entry", "ps_entry", "ps_unstop",
                            "ps_playing", "ps_spawn"}
  \/ app_threads[t].ret = "ps_unstop"

\* Another playback may be asked for within the bounds.
CanPlay ==
  Len(workers) + Cardinality({t \in AppThreads : PlayPending(t)}) < MaxWorkers

\* rdev calls handle_event with a press of F10.
DeliverF10 ==
  /\ app_threads["listener"].pc = "idle"
  /\ CanPlay
  /\ app_threads' = [app_threads EXCEPT !["listener"].event = <<"Press", "F10">>,
                                        !["listener"].pc = "hotkeys"]
  /\ ThreadFrame(playbackVars)

\* Timelines handed to playback_sample.
AppTimelines ==
  {<<>>,
   <<TimedEvent(0, "Down", Layout("a")), TimedEvent(6, "Up", Layout("a"))>>}

\* The controlling thread calls playback_sample.
ControlPlay ==
  /\ app_threads["control"].pc = "idle"
  /\ CanPlay
  /\ \E sample \in AppTimelines :
       app_threads' = [app_threads EXCEPT !["control"].sample = sample,
                                          !["control"].pc = "ps_entry"]
  /\ ThreadFrame(playbackVars)

\* The controlling thread calls stop_playback.
ControlStopPlayback ==
  /\ app_threads["control"].pc = "idle"
  /\ Goto("control", "sp_store")
  /\ ThreadFrame(playbackVars)

\* The instants some thread is waiting for: the end of a worker's sleep, the
\* scheduled time of a worker's event, the end of a watcher's sleep.
Deadlines ==
  {workers[i].wake : i \in {n \in 1..Len(workers) : workers[n].pc = "sleep"}}
  \cup {workers[i].start + workers[i].scheduled :
          i \in {n \in 1..Len(workers) : workers[n].pc = "wait"}}
  \cup {watchers[k].wake : k \in {n \in 1..Len(watchers) : watchers[n].pc = "sleep"}}

\* The clock of the playback runs advances to the next instant a thread is
\* waiting for; a thread may act at that instant or at any later one.
TickPlayback ==
  /\ \E d \in Deadlines :
       /\ d > now
       /\ \A e \in Deadlines : e > now => d <= e
       /\ now' = d
  /\ UNCHANGED <<macroVars, appVars>>

\* Global offsets of the playback runs, in milliseconds.
AppOffsets == {-1000, 0}

InitPlayback ==
  /\ InitMacro
  /\ now = 0
  /\ recording = FALSE
  /\ start = NoInstant
  /\ current_events = <<>>
  /\ app_samples \in {<<AppSample("Sample 1", tl)>> : tl \in AppTimelines \ {<<>>}}
  /\ key_states = EmptyMap
  /\ app_threads = [t \in AppThreads |-> AppThreadIdle]
  /\ playback_stop = FALSE
  /\ playing = FALSE
  /\ playback_handle = 0
  /\ handle_lock = Free
  /\ app_offset_ms \in AppOffsets
  /\ workers = <<>>
  /\ watchers = <<>>

\* AppState playback: the listener's F10 and the controlling thread against the
\* workers and the watchers.
NextPlayback ==
  \/ TickPlayback
  \/ DeliverF10
  \/ handle_event_F10
  \/ \E t \in AppThreads : stop_recording_swap(t)
  \/ \E t \in AppThreads : playback_latest(t)
  \/ ControlPlay
  \/ ControlStopPlayback
  \/ \E t \in AppThreads : playback_sample_entry(t)
  \/ \E t \in AppThreads : stop_playback_store(t)
  \/ \E t \in AppThreads : stop_playback_take(t)
  \/ \E t \in AppThreads : stop_playback_join(t)
  \/ \E t \in AppThreads : stop_playback_clear(t)
  \/ \E t \in AppThreads : playback_sample_unstop(t)
  \/ \E t \in AppThreads : playback_sample_playing(t)
  \/ \E t \in AppThreads : playback_sample_spawn(t)
  \/ \E t \in AppThreads : playback_sample_store(t)
  \/ \E t \in AppThreads : playback_sample_watch(t)
  \/ \E i \in 1..Len(workers) : play_timeline_start(i)
  \/ \E i \in 1..Len(workers) : play_timeline_loop(i)
  \/ \E i \in 1..Len(workers) : wait_until(i)
  \/ \E i \in 1..Len(workers) : wait_until_wake(i)
  \/ \E i \in 1..Len(workers) : play_timeline_deliver(i)
  \/ \E k \in 1..Len(watchers) : watcher_take(k)
  \/ \E k \in 1..Len(watchers) : watcher_join(k)
  \/ \E k \in 1..Len(watchers) : watcher_clear(k)

SpecPlayback == InitPlayback /\ [][NextPlayback]_vars

\* The steps of one API thread, of one worker and of one watcher: the operating
\* system schedules every thread that can run, and the clock advances.
AppThreadStep(t) ==
  \/ t = "listener" /\ handle_event_F10
  \/ stop_recording_swap(t)
  \/ playback_latest(t)
  \/ playback_sample_entry(t)
  \/ stop_playback_store(t)
  \/ stop_playback_take(t)
  \/ stop_playback_join(t)
  \/ stop_playback_clear(t)
  \/ playback_sample_unstop(t)
  \/ playback_sample_playing(t)
  \/ playback_sample_spawn(t)
  \/ playback_sample_store(t)
  \/ playback_sample_watch(t)

WorkerStep(i) ==
  /\ i <= Len(workers)
  /\ \/ play_timeline_start(i)
     \/ play_timeline_loop(i)
     \/ wait_until(i)
     \/ wait_until_wake(i)
     \/ play_timeline_deliver(i)

WatcherStep(k) ==
  /\ k <= Len(watchers)
  /\ \/ watcher_take(k)
     \/ watcher_join(k)
     \/ watcher_clear(k)

FairPlayback ==
  /\ WF_vars(TickPlayback)
  /\ \A t \in AppThreads : WF_vars(AppThreadStep(t))
  /\ \A i \in 1..MaxWorkers : WF_vars(WorkerStep(i))
  /\ \A k \in 1..MaxWorkers : WF_vars(WatcherStep(k))

\* The playback runs without a global offset, under a fair scheduler.
InitPlaybackFair == InitPlayback /\ app_offset_ms = 0

\* The commands of the fair runs: F10 on the listener thread (play, or cancel
\* while playing) against stop_playback on the controlling thread.
NextPlaybackFair ==
  \/ TickPlayback
  \/ DeliverF10
  \/ handle_event_F10
  \/ \E t \in AppThreads : stop_recording_swap(t)
  \/ \E t \in AppThreads : playback_latest(t)
  \/ ControlStopPlayback
  \/ \E t \in AppThreads : playback_sample_entry(t)
  \/ \E t \in AppThreads : stop_playback_store(t)
  \/ \E t \in AppThreads : stop_playback_take(t)
  \/ \E t \in AppThreads : stop_playback_join(t)
  \/ \E t \in AppThreads : stop_playback_clear(t)
  \/ \E t \in AppThreads : playback_sample_unstop(t)
  \/ \E t \in AppThreads : playback_sample_playing(t)
  \/ \E t \in AppThreads : playback_sample_spawn(t)
  \/ \E t \in AppThreads : playback_sample_store(t)
  \/ \E t \in AppThreads : playback_sample_watch(t)
  \/ \E i \in 1..Len(workers) : play_timeline_start(i)
  \/ \E i \in 1..Len(workers) : play_timeline_loop(i)
  \/ \E i \in 1..Len(workers) : wait_until(i)
  \/ \E i \in 1..Len(workers) : wait_until_wake(i)
  \/ \E i \in 1..Len(workers) : play_timeline_deliver(i)
  \/ \E k \in 1..Len(watchers) : watcher_take(k)
  \/ \E k \in 1..Len(watchers) : watcher_join(k)
  \/ \E k \in 1..Len(watchers) : watcher_clear(k)

SpecPlaybackFair == InitPlaybackFair /\ [][NextPlaybackFair]_vars /\ FairPlayback

(***************************************************************************)
(* AppState under the listener alone: the record hotkey, key edges and the *)
(* playback hotkey, with the playback threads they start.                  *)
(***************************************************************************)
\* AppState::new, with the global offset set to one millisecond.
InitAppHotkeys ==
  /\ InitMacro
  /\ now = 0
  /\ recording = FALSE
  /\ start = NoInstant
  /\ current_events = <<>>
  /\ app_samples = <<>>
  /\ key_states = EmptyMap
  /\ app_threads = [t \in AppThreads |-> AppThreadIdle]
  /\ playback_stop = FALSE
  /\ playing = FALSE
  /\ playback_handle = 0
  /\ handle_lock = Free
  /\ app_offset_ms = 1
  /\ workers = <<>>
  /\ watchers = <<>>

NextAppHotkeys ==
  \/ Tick
  \/ TickPlayback
  \/ \E raw_key \in AppKeys : Deliver("Press", raw_key)
  \/ DeliverF10
  \/ handle_event_F9
  \/ handle_event_F10
  \/ handle_event_recording
  \/ handle_event_start_at
  \/ handle_event_convert
  \/ handle_event_recheck
  \/ push_event_elapsed
  \/ push_event_push
  \/ start_recording_clear("listener")
  \/ start_recording_set("listener")
  \/ start_recording_store("listener")
  \/ stop_recording_swap("listener")
  \/ stop_recording_snapshot("listener")
  \/ stop_recording_push("listener")
  \/ playback_latest("listener")
  \/ playback_sample_entry("listener")
  \/ stop_playback_store("listener")
  \/ stop_playback_take("listener")
  \/ stop_playback_join("listener")
  \/ stop_playback_clear("listener")
  \/ playback_sample_unstop("listener")
  \/ playback_sample_playing("listener")
  \/ playback_sample_spawn("listener")
  \/ playback_sample_store("listener")
  \/ playback_sample_watch("listener")
  \/ \E i \in 1..Len(workers) : play_timeline_start(i)
  \/ \E i \in 1..Len(workers) : play_timeline_loop(i)
  \/ \E i \in 1..Len(workers) : wait_until(i)
  \/ \E i \in 1..Len(workers) : wait_until_wake(i)
  \/ \E i \in 1..Len(workers) : play_timeline_deliver(i)
  \/ \E k \in 1..Len(watchers) : watcher_take(k)
  \/ \E k \in 1..Len(watchers) : watcher_join(k)
  \/ \E k \in 1..Len(watchers) : watcher_clear(k)

SpecAppHotkeys == InitAppHotkeys /\ [][NextAppHotkeys]_vars

(***************************************************************************)
(* Properties of the store and the recording sessions.                     *)
(***************************************************************************)
Ids(samples) == {samples[i].id : i \in 1..Len(samples)}

DistinctIds(samples) ==
  \A i, j \in 1..Len(samples) : i # j => samples[i].id # samples[j].id

\* c is the greatest id of the samples, 0 when there is none.
IsMaxId(c, samples) ==
  /\ \A i \in 1..Len(samples) : samples[i].id <= c
  /\ IF samples = <<>> THEN c = 0 ELSE \E i \in 1..Len(samples) : samples[i].id = c

\* A step in which a recording session ends.
StopStep == recorder.is_recording /\ ~recorder'.is_recording

\* C5: stop() on a session with an empty live buffer creates no Sample: every
\* sample a step appends to the store has at least one event.
C5_NoEmptySample ==
  [][\A i \in 1..Len(recorder'.samples) :
       i > Len(recorder.samples) => recorder'.samples[i].events # <<>>]_vars

RecognizedKey(key) == key.kind = "Layout" \/ key.kind \in NamedTags

OnlyRecognized(samples) ==
  \A i \in 1..Len(samples) : \A j \in 1..Len(samples[i].events) :
    RecognizedKey(samples[i].events[j].key)

\* Same ids, names and (key, edge, offset) triples, in the same order.
SameStore(x, y) ==
  /\ Len(x) = Len(y)
  /\ \A i \in 1..Len(x) :
       /\ x[i].id = y[i].id
       /\ x[i].name = y[i].name
       /\ Len(x[i].events) = Len(y[i].events)
       /\ \A j \in 1..Len(x[i].events) :
            /\ x[i].events[j].key = y[i].events[j].key
            /\ x[i].events[j].mode = y[i].events[j].mode
            /\ x[i].events[j].delta_ms = y[i].events[j].delta_ms

\* C8: for a store with recognized keys only, save followed by load reproduces
\* an equivalent store: a load of the file that save wrote for the current
\* store leaves the same samples, in the same order.
C8_SaveLoadRoundTrip ==
  [][(/\ OnlyRecognized(recorder.samples)
      /\ disk = save_to_disk(recorder, disk, TRUE)
      /\ recorder'.samples = load_from_disk(recorder, disk, TRUE).samples)
     => SameStore(recorder'.samples, recorder.samples)]_vars

\* The file holds what save wrote for a store with character and named keys.
C8_Witness ==
  /\ disk = Json(to_serializable(recorder.samples))
  /\ \E i \in 1..Len(recorder.samples) :
       /\ \E j \in 1..Len(recorder.samples[i].events) :
            recorder.samples[i].events[j].key = Named("Meta")
       /\ \E j \in 1..Len(recorder.samples[i].events) :
            recorder.samples[i].events[j].key = Layout("k")
  /\ \E i \in 1..Len(recorder.samples) : recorder.samples[i].name = "x"

RecognizedTag(tag) ==
  \/ tag \in {"Space", "Return", "Tab", "Escape", "UpArrow", "DownArrow",
              "LeftArrow", "RightArrow", "Shift", "Control", "Alt", "Meta"}
  \/ Len(tag) > 5 /\ SubSeq(tag, 1, 5) = "char:"

TagIsRecognized(e) == RecognizedTag(e.key)

NonDecreasing(events) ==
  \A i \in 1..(Len(events) - 1) : events[i].at <= events[i + 1].at

\* C6: in every state the offsets of AppState's live buffer are non-decreasing
\* in buffer order, and so are the events of every sample finalized from it,
\* whatever the interleaving of the listener thread with start and stop.
C6_OffsetsNonDecreasing ==
  /\ NonDecreasing(current_events)
  /\ \A i \in 1..Len(app_samples) : NonDecreasing(app_samples[i].events)

\* The per-key adjustment the map gives the event: its entry, 0 when missing.
KeyAdjustment(th) ==
  LET k == key_to_string(th.events[th.idx].key)
  IN IF k \in DOMAIN th.per_key_offset THEN th.per_key_offset[k] ELSE 0

\* C4: for every event, global offset and per-key map, the target the thread
\* waits for is max(0, delta_ms + offset_ms + per-key entry (0 when missing));
\* it is never negative.
C4_EffectiveTarget ==
  \A i \in 1..Len(play_threads) :
    LET th == play_threads[i]
    IN th.pc \in {"sleep", "spin", "deliver"} =>
         LET sum == th.events[th.idx].delta_ms + th.offset_ms + KeyAdjustment(th)
         IN /\ th.target >= 0
            /\ th.target >= sum
            /\ th.target \in {0, sum}

\* An event at 5 ms played with a global offset of -1000 ms is due at 0 ms.
C4_Witness ==
  \E i \in 1..Len(play_threads) :
    LET th == play_threads[i]
    IN /\ th.pc = "deliver"
       /\ th.events[th.idx].delta_ms = 5
       /\ th.offset_ms = -1000
       /\ th.target = 0

\* C1: at most one playback worker is active at a time: once the thread of a
\* later play request has delivered an event, the thread of an earlier request
\* makes no further injector call.
C1_OneWorker ==
  [][\A i, j \in 1..Len(play_threads) :
       (i < j /\ play_threads[j].calls # <<>>) =>
         play_threads'[i].calls = play_threads[i].calls]_vars

\* C2: once a worker's wait has been interrupted by the cancellation request,
\* the worker makes no further injector call: the event it was waiting for is
\* not delivered.
C2_NoDeliveryAfterCancel ==
  [][\A i \in 1..Len(workers) :
       workers[i].broke = "stop" => workers'[i].calls = workers[i].calls]_vars

\* The injector calls a timeline asks for, in input order.
TimelineCalls(events) == [j \in 1..Len(events) |-> <<events[j].action, events[j].key>>]

PlayEventsPrefix ==
  \A i \in 1..Len(play_threads) :
    LET th == play_threads[i]
        all == [j \in 1..Len(th.events) |-> <<th.events[j].mode, th.events[j].key>>]
    IN /\ Len(th.calls) <= Len(all)
       /\ th.calls = SubSeq(all, 1, Len(th.calls))
       /\ th.pc = "done" => th.calls = all

\* The same clamp in play_timeline_async, which has no per-key map: the
\* scheduled time is max(0, at + offset).
ApplyOffsetClamps ==
  \A i \in 1..Len(workers) :
    LET w == workers[i]
    IN w.pc \in {"wait", "sleep", "deliver"} =>
         LET sum == w.events[w.idx].at + from_millis(w.offset_ms)
         IN /\ w.scheduled >= 0
            /\ w.scheduled >= sum
            /\ w.scheduled \in {0, sum}

BucketKeys(samples) ==
  {<<samples[p[1]].events[p[2]].key, samples[p[1]].events[p[2]].mode>> :
     p \in {q \in (1..Len(samples)) \X (1..expected_len(samples)) :
              q[2] <= Len(samples[q[1]].events)}}

\* C12: every aggregated timeline handed to a playback thread contains, for
\* each bucket of the store, an event with the bucket's key and the bucket's
\* edge, for character keys and for named keys.
C12_BucketKeyCarried ==
  \A i \in 1..Len(play_threads) :
    \A b \in BucketKeys(recorder.samples) :
      \E j \in 1..Len(play_threads[i].events) :
        /\ play_threads[i].events[j].key = b[1]
        /\ play_threads[i].events[j].mode = b[2]

\* The store without its zero-event samples, with one more zero-event sample,
\* and with every sample cut down to the expected length.
WithoutEmpty(samples) == SelectSeq(samples, LAMBDA s : s.events # <<>>)

WithEmpty(samples) ==
  Append(samples, [id |-> Len(samples) + 1, started_at |-> 0,
                   name |-> SampleName(Len(samples) + 1), events |-> <<>>])

CutToExpected(samples) ==
  [i \in 1..Len(samples) |->
     [samples[i] EXCEPT !.events =
        SubSeq(@, 1, IF Len(@) < expected_len(samples) THEN Len(@) ELSE expected_len(samples))]]

\* The distinct (key, edge, index) triples at the positions below the expected length.
Buckets(samples) ==
  {<<samples[p[1]].events[p[2]].key, samples[p[1]].events[p[2]].mode, p[2]>> :
     p \in {q \in (1..Len(samples)) \X (1..expected_len(samples)) :
              q[2] <= Len(samples[q[1]].events)}}

\* The store with every event at a position past the expected length replaced
\* by another event (another key, edge and offset), the lengths kept.
MaskExtras(samples) ==
  [i \in 1..Len(samples) |->
     [samples[i] EXCEPT !.events =
        [j \in 1..Len(@) |->
           IF j <= expected_len(samples) THEN @[j]
           ELSE [key |-> Named("Tab"), mode |-> "Release", delta_ms |-> 7]]]]

Timelines(samples) == [i \in 1..Len(samples) |-> samples[i].events]

\* The store A = [(a, Press, 10)], B = [(a, Press, 12)], C = [].
ZeroLengthExample ==
  <<<<[key |-> Layout("a"), mode |-> "Press", delta_ms |-> 10]>>,
    <<[key |-> Layout("a"), mode |-> "Press", delta_ms |-> 12]>>,
    <<>>>>

\* C13 as stated: the aggregated timeline has one event per bucket, is the
\* same without the zero-event samples and with one more of them, and is the
\* same when every sample is cut down to its first L events (events at
\* index >= L are ignored).
C13_OnlyBelowExpected ==
  LET out_set == timing_map(recorder)
  IN /\ \A out \in out_set : Len(out) = Cardinality(Buckets(recorder.samples))
     /\ out_set = timing_map([recorder EXCEPT !.samples = WithoutEmpty(@)])
     /\ out_set = timing_map([recorder EXCEPT !.samples = WithEmpty(@)])
     /\ out_set = timing_map([recorder EXCEPT !.samples = CutToExpected(@)])

\* C13, amended: the aggregated timeline has one event per distinct (key,
\* edge, index) bucket with index < L; it is the same without the zero-event
\* samples and with one more of them; the key, edge and offset of an event at
\* index >= L never matter, and in Median mode neither does its presence (in
\* Mean mode the number of events of a sample is its weight); and the store
\* A = [(a, Press, 10)], B = [(a, Press, 12)], C = [] gives in Mean mode
\* exactly one event, with offset 11.
C13_PositionalBuckets ==
  LET out_set == timing_map(recorder)
  IN /\ \A out \in out_set : Len(out) = Cardinality(Buckets(recorder.samples))
     /\ out_set = timing_map([recorder EXCEPT !.samples = WithoutEmpty(@)])
     /\ out_set = timing_map([recorder EXCEPT !.samples = WithEmpty(@)])
     /\ out_set = timing_map([recorder EXCEPT !.samples = MaskExtras(@)])
     /\ recorder.use_median
          => out_set = timing_map([recorder EXCEPT !.samples = CutToExpected(@)])
     /\ Timelines(recorder.samples) = ZeroLengthExample /\ ~recorder.use_median
          => \A out \in out_set : Len(out) = 1 /\ out[1].delta_ms = 11

\* The store holds a one-event sample, a two-event sample and a zero-event
\* sample, and a playback thread was handed its aggregated timeline.
C13_Witness ==
  /\ Len(recorder.samples) = 3
  /\ Len(recorder.samples[1].events) = 1
  /\ Len(recorder.samples[2].events) = 2
  /\ recorder.samples[3].events = <<>>
  /\ \E i \in 1..Len(play_threads) :
       /\ play_threads[i].events \in timing_map(recorder)
       /\ Len(play_threads[i].events) = 1

\* The samples that have, at the bucket's index, an event with the bucket's
\* key and edge, and the offsets they put into the bucket.
BucketSamples(samples, b) ==
  {i \in 1..Len(samples) :
     /\ b[3] <= expected_len(samples)
     /\ b[3] <= Len(samples[i].events)
     /\ samples[i].events[b[3]].key = b[1]
     /\ samples[i].events[b[3]].mode = b[2]}

BucketOffset(samples, b) ==
  [i \in BucketSamples(samples, b) |-> samples[i].events[b[3]].delta_ms]

\* The element at (zero-based) index `rank` of the offsets sorted ascending:
\* the offset v with at most `rank` offsets below it and more than `rank`
\* offsets not above it.
ElementAt(offset, rank) ==
  CHOOSE v \in {offset[i] : i \in DOMAIN offset} :
    /\ Cardinality({i \in DOMAIN offset : offset[i] < v}) <= rank
    /\ Cardinality({i \in DOMAIN offset : offset[i] <= v}) > rank

\* The output holds exactly the (edge, aggregate) pairs of the buckets, each
\* as often as buckets have it.
SameAggregates(out, samples, expected) ==
  \A b \in Buckets(samples) :
    Cardinality({j \in 1..Len(out) :
                   out[j].mode = b[2] /\ out[j].delta_ms = expected[b]})
      = Cardinality({c \in Buckets(samples) : c[2] = b[2] /\ expected[c] = expected[b]})

\* Three one-event samples with the offsets 10, 12 and 1000 for the same key and edge.
MedianExample ==
  <<<<[key |-> Layout("a"), mode |-> "Press", delta_ms |-> 10]>>,
    <<[key |-> Layout("a"), mode |-> "Press", delta_ms |-> 12]>>,
    <<[key |-> Layout("a"), mode |-> "Press", delta_ms |-> 1000]>>>>

\* C14: in Median mode the aggregates of the timeline are, bucket by bucket,
\* the element at index floor(count / 2) of the bucket's offsets sorted
\* ascending; the timeline is the same for every outlier_k; and the offsets
\* 10, 12, 1000 give 12.
C14_MedianElement ==
  recorder.use_median =>
    LET out_set == timing_map(recorder)
        samples == recorder.samples
        median  == [b \in Buckets(samples) |->
                      ElementAt(BucketOffset(samples, b),
                                Cardinality(BucketSamples(samples, b)) \div 2)]
    IN /\ \A out \in out_set : SameAggregates(out, samples, median)
       /\ \A k \in OutlierKs : out_set = timing_map([recorder EXCEPT !.outlier_k = k])
       /\ Timelines(samples) = MedianExample
            => \A out \in out_set : Len(out) = 1 /\ out[1].delta_ms = 12

\* Median mode, the store holds the offsets 10, 12 and 1000 in one bucket, and
\* a playback thread was handed the aggregated timeline: one event at 12.
C14_Witness ==
  /\ recorder.use_median
  /\ Timelines(recorder.samples) = MedianExample
  /\ \E i \in 1..Len(play_threads) :
       /\ play_threads[i].events \in timing_map(recorder)
       /\ play_threads[i].events[1].delta_ms = 12

\* C15: in Median mode a bucket with an even number of offsets aggregates to
\* the lower of the two middle elements of the sorted offsets (index
\* count / 2 - 1), so that the offsets 10, 12 give 10.
C15_EvenCountLowerMiddle ==
  recorder.use_median =>
    LET samples == recorder.samples
        even    == {b \in Buckets(samples) : Cardinality(BucketSamples(samples, b)) % 2 = 0}
    IN \A out \in timing_map(recorder) :
         \A b \in even :
           \E j \in 1..Len(out) :
             /\ out[j].mode = b[2]
             /\ out[j].delta_ms =
                  ElementAt(BucketOffset(samples, b),
                            Cardinality(BucketSamples(samples, b)) \div 2 - 1)

\* Sum of f over the set S.
RECURSIVE Total(_, _)
Total(f, S) ==
  IF S = {} THEN 0 ELSE LET i == CHOOSE j \in S : TRUE IN f[i] + Total(f, S \ {i})

\* The reference Mean aggregate of bucket b.  Each offset counts as often as
\* its sample has events; with n the number of copies and t their total, the
\* weighted mean is m = t / n and the weighted variance is
\* s^2 = (sum over the copies of (v - m)^2) / n, so that |v - m| <= k * s reads
\* (n*v - t)^2 * n * den^2 <= num^2 * (sum over the copies of (n*v - t)^2).
ReferenceMean(samples, b, k) ==
  LET I      == BucketSamples(samples, b)
      offset == BucketOffset(samples, b)
      copies == [i \in I |-> Len(samples[i].events)]
      n      == Total(copies, I)
      t      == Total([i \in I |-> copies[i] * offset[i]], I)
      spread == Total([i \in I |-> copies[i] * (n * offset[i] - t) * (n * offset[i] - t)], I)
      kept   == {i \in I : (n * offset[i] - t) * (n * offset[i] - t) * n * k.den * k.den
                             <= k.num * k.num * spread}
      used   == IF kept = {} THEN I ELSE kept
  IN Total(offset, used) \div Cardinality(used)

\* C16: in Mean mode the aggregates of the timeline are, bucket by bucket, the
\* reference computation (weights = the samples' event counts, weighted mean
\* and deviation, values within outlier_k deviations kept, all values if none
\* is kept, truncated plain mean of the kept values); the offsets 40 and 60
\* with equal weights and outlier_k = 2 give 50.
C16_MeanReference ==
  ~recorder.use_median =>
    LET samples == recorder.samples
        mean    == [b \in Buckets(samples) |-> ReferenceMean(samples, b, recorder.outlier_k)]
    IN \A out \in timing_map(recorder) :
         /\ SameAggregates(out, samples, mean)
         /\ Timelines(samples) = AggMeanExample /\ recorder.outlier_k = [num |-> 2, den |-> 1]
              => Len(out) = 1 /\ out[1].delta_ms = 50

\* Mean mode with outlier_k = 2, the store holds the offsets 40 and 60 in one
\* bucket, and a playback thread was handed the aggregated timeline: one
\* event at 50.
C16_Witness ==
  /\ ~recorder.use_median
  /\ recorder.outlier_k = [num |-> 2, den |-> 1]
  /\ Timelines(recorder.samples) = AggMeanExample
  /\ \E i \in 1..Len(play_threads) :
       /\ play_threads[i].events \in timing_map(recorder)
       /\ play_threads[i].events[1].delta_ms = 50

\* C17: every aggregated timeline, of any store in any mode, and every
\* timeline handed to a playback thread, is non-decreasing in its offsets.
C17_SortedAscending ==
  /\ \A out \in timing_map(recorder) :
       \A j \in 1..(Len(out) - 1) : out[j].delta_ms <= out[j + 1].delta_ms
  /\ \A i \in 1..Len(play_threads) :
       \A j \in 1..(Len(play_threads[i].events) - 1) :
         play_threads[i].events[j].delta_ms <= play_threads[i].events[j + 1].delta_ms

\* A sample whose first event lies at 1000 and whose second lies at 10: the
\* timeline handed to the thread starts with the aggregate of the second
\* position.
C17_Witness ==
  /\ Len(recorder.samples) = 1
  /\ Len(recorder.samples[1].events) = 2
  /\ recorder.samples[1].events[1].delta_ms = 1000
  /\ \E i \in 1..Len(play_threads) :
       /\ play_threads[i].events \in timing_map(recorder)
       /\ play_threads[i].events[1].delta_ms = 10
       /\ play_threads[i].events[2].delta_ms = 1000

(***************************************************************************)
(* Properties of AppState's playback state machine.                        *)
(***************************************************************************)
\* C18: in every state, if the is-playing flag is false then every playback
\* worker spawned so far has terminated.
C18_IdleMeansNoWorker ==
  ~playing => \A i \in 1..Len(workers) : workers[i].pc = "done"

\* Idle: every worker has terminated, every watcher has finished, no handle
\* is stored, the flag is false, the handle's mutex is free and no command is
\* in progress.
PlaybackIdle ==
  /\ \A i \in 1..Len(workers) : workers[i].pc = "done"
  /\ \A k \in 1..Len(watchers) : watchers[k].pc = "done"
  /\ playback_handle = 0
  /\ ~playing
  /\ handle_lock = Free
  /\ \A t \in AppThreads : app_threads[t].pc = "idle"

\* A play or cancel command has just been issued: the controlling thread is
\* at the entry of playback_sample or stop_playback, or the listener at the
\* entry of handle_event.
CommandIssued ==
  \/ app_threads["control"].pc \in {"ps_entry", "sp_store"}
  \/ app_threads["listener"].pc = "hotkeys"

\* C19: under fair scheduling, unless commands keep arriving forever, the
\* playback is eventually Idle and stays Idle: every worker has terminated,
\* every watcher has finished, no handle is stored and the flag is false;
\* no command, worker or watcher blocks forever.
C19_ReturnsToIdle == ([]<>CommandIssued) \/ (<>[]PlaybackIdle)

\* Idle again after a cancelled playback and a playback that ran to its end.
C19_Witness ==
  /\ PlaybackIdle
  /\ Len(workers) = 2
  /\ \E i \in 1..2 : workers[i].exit = "stop" /\ Len(workers[i].calls) < Len(workers[i].events)
  /\ \E i \in 1..2 : workers[i].exit = "end"
  /\ Len(watchers) = 2

(***************************************************************************)
(* Properties of a playback against the store.                             *)
(***************************************************************************)
\* The timelines a play request can hand over in the current state: the
\* events of the first sample with some id, or an aggregated timeline.
Playable ==
  {recorder.samples[i].events :
     i \in {j \in 1..Len(recorder.samples) :
              \A h \in 1..(j - 1) : recorder.samples[h].id # recorder.samples[j].id}}
    \cup timing_map(recorder)

\* C20: a playback thread is handed a timeline of the store as it is when
\* play is requested; no later step (rename, delete, load, a finished
\* recording, another play request) changes the timeline a thread holds; and
\* what a thread delivers is, in order, a prefix of that timeline and all of
\* it once the thread is done.
C20_SnapshotPlayed ==
  /\ []PlayEventsPrefix
  /\ [][/\ Len(play_threads') >= Len(play_threads)
        /\ \A i \in 1..Len(play_threads) :
             play_threads'[i].events = play_threads[i].events
        /\ \A i \in (Len(play_threads) + 1)..Len(play_threads') :
             play_threads'[i].events \in Playable]_vars

\* A playback in flight over an emptied store: the thread has delivered the
\* first of the two events of its timeline and the store holds no sample.
C20_Witness ==
  /\ recorder.samples = <<>>
  /\ \E i \in 1..Len(play_threads) :
       /\ Len(play_threads[i].events) = 2
       /\ play_threads[i].pc # "done"
       /\ play_threads[i].calls = <<<<"Press", Layout("a")>>>>

(***************************************************************************)
(* C21: an idle recorder has an empty live buffer.                         *)
(***************************************************************************)
\* C21: whenever the recorder is Idle its live buffer is empty, for the
\* MacroRecorder (is_recording / live_events) and for AppState (recording /
\* current_events): start clears the buffer, stop clears it whether or not a
\* Sample was produced, and an edge handled while Idle appends nothing.
C21_IdleBufferEmpty ==
  /\ ~recorder.is_recording => recorder.live_events = <<>>
  /\ ~recording => current_events = <<>>

(***************************************************************************)
(* C22: the allow-list.                                                    *)
(***************************************************************************)
\* The Press of a hotkey, which poll_events handles before any recording.
HotkeyPress(msg) ==
  /\ msg[1] = "Press"
  /\ msg[2] \in {recorder.hotkey_toggle, recorder.hotkey_playback}

\* The events poll_events records for the drained messages, in channel order.
RecordedEvents(msgs) ==
  [i \in 1..Len(msgs) |->
     [key |-> map_key(msgs[i][2]), mode |-> msgs[i][1],
      delta_ms |-> Max0(msgs[i][3] - recorder.recording_start.at)]]

\* The held set after the drained edges: inserted on Press, removed on Release.
RECURSIVE HeldAfter(_, _)
HeldAfter(held, msgs) ==
  IF msgs = <<>> THEN held
  ELSE HeldAfter(IF Head(msgs)[1] = "Press" THEN held \cup {map_key(Head(msgs)[2])}
                 ELSE held \ {map_key(Head(msgs)[2])},
                 Tail(msgs))

\* The poll that drains the channel.
Drained == channel # <<>> /\ channel' = <<>>

\* C22: while a non-empty allow-list is configured, a poll that drains only
\* edges of keys outside the list changes neither the live buffer nor the held
\* set; with an empty allow-list a poll of a recording session appends one
\* event per drained edge of a mapped key, with that key and mode, and updates
\* the held set by each of them.
C22_AllowListDrops ==
  [][Drained /\ (\A i \in 1..Len(channel) : ~HotkeyPress(channel[i]))
     => /\ (/\ recorder.allowed_keys # <<>>
            /\ \A i \in 1..Len(channel) :
                 map_key(channel[i][2]) \notin Range(recorder.allowed_keys))
           => /\ recorder'.live_events = recorder.live_events
              /\ recorder'.pressed_keys = recorder.pressed_keys
        /\ (/\ recorder.allowed_keys = <<>>
            /\ recorder.is_recording
            /\ \A i \in 1..Len(channel) : map_key(channel[i][2]) # None)
           => /\ recorder'.live_events = recorder.live_events \o RecordedEvents(channel)
              /\ recorder'.pressed_keys = HeldAfter(recorder.pressed_keys, channel)]_vars

\* A recording session with the list [a], a held in the buffer and the held set,
\* and an edge of s waiting in the channel.
C22_Witness ==
  /\ recorder.is_recording
  /\ recorder.allowed_keys = <<Layout("a")>>
  /\ recorder.live_events # <<>>
  /\ Layout("a") \in recorder.pressed_keys
  /\ channel # <<>>
  /\ channel[1][2] = "KeyS"
  /\ ENABLED PollEvents(DiskWorks)

(***************************************************************************)
(* C23: only edges captured within the session are recorded.               *)
(***************************************************************************)
\* The edge passes the mapping and the allow-list.
Accepted(msg) ==
  /\ map_key(msg[2]) # None
  /\ recorder.allowed_keys # <<>> => map_key(msg[2]) \in Range(recorder.allowed_keys)

\* The listener stamped the edge at or after the start of the current session.
InSession(msg) == msg[3] >= recorder.recording_start.at

\* C23: a poll of a recording session appends exactly the accepted edges the
\* listener stamped at or after the session's start: an edge captured before
\* start_recording is never recorded, even when it is drained after it.
C23_CapturedInSession ==
  [][Drained /\ recorder.is_recording /\ (\A i \in 1..Len(channel) : ~HotkeyPress(channel[i]))
     => recorder'.live_events =
          recorder.live_events \o
          RecordedEvents(SelectSeq(channel, LAMBDA m : Accepted(m) /\ InSession(m)))]_vars

(***************************************************************************)
(* C24: a failed write is contained.                                       *)
(***************************************************************************)
\* The world after an operation whose write failed, given the world after the
\* same operation with a successful write: the same recorder and threads, and
\* the file as it was.
WriteFailed(after) == [after EXCEPT !.disk = disk]

\* C24: in every state, stop (finish_recording with autosave), rename and
\* delete with a failing write complete with the same in-memory result as with
\* a successful write and leave the file as it was; the operations return
\* nothing, so the failure is not surfaced, and the state they leave is again a
\* state in which this holds.
C24_FailedWriteContained ==
  /\ finish_recording(TheWorld, FALSE) = WriteFailed(finish_recording(TheWorld, TRUE))
  /\ \A id \in 1..MaxId :
       /\ rename_sample(TheWorld, id, "x", FALSE)
            = WriteFailed(rename_sample(TheWorld, id, "x", TRUE))
       /\ delete_sample(TheWorld, id, FALSE)
            = WriteFailed(delete_sample(TheWorld, id, TRUE))

\* Every write so far has failed: the store holds a finalized, renamed sample,
\* a new session is recording, and there is still no file.
C24_Witness ==
  /\ disk = Missing
  /\ recorder.autosave
  /\ \E i \in 1..Len(recorder.samples) :
       recorder.samples[i].name = "x" /\ recorder.samples[i].events # <<>>
  /\ recorder.is_recording
  /\ recorder.live_events # <<>>

(***************************************************************************)
(* C25: a stored sample changes in its name only.                          *)
(***************************************************************************)
\* Sample s with its name left out.
Unnamed(s) == [id |-> s.id, started_at |-> s.started_at, events |-> s.events]

\* rename_sample(id, "x") on the current store: no effect when the id is
\* absent; otherwise the same samples in the same order, a name changed only on
\* a sample with that id, and the first sample with that id named "x".
RenameChangesNameOnly(id) ==
  LET S == recorder.samples
      T == rename_sample(TheWorld, id, "x", TRUE).r.samples
      hits == {i \in 1..Len(S) : S[i].id = id}
  IN /\ hits = {} => T = S
     /\ Len(T) = Len(S)
     /\ \A i \in 1..Len(S) :
          /\ Unnamed(T[i]) = Unnamed(S[i])
          /\ T[i].name # S[i].name => i \in hits
     /\ hits # {} => \E i \in hits : T[i].name = "x"

\* delete_sample(id) on the current store: exactly the samples with another
\* id, in their order.
DeleteRemovesId(id) ==
  LET S == recorder.samples
      T == delete_sample(TheWorld, id, TRUE).r.samples
      kept == {i \in 1..Len(S) : S[i].id # id}
  IN /\ Len(T) = Cardinality(kept)
     /\ \A i \in kept : T[Cardinality({j \in kept : j <= i})] = S[i]

\* One step of the store: unchanged, one sample appended, the samples of one id
\* removed, or names changed on the samples of one id.
StoreStep ==
  LET S == recorder.samples
      T == recorder'.samples
  IN \/ T = S
     \/ Len(T) = Len(S) + 1 /\ SubSeq(T, 1, Len(S)) = S
     \/ \E id \in 1..MaxId : T = SelectSeq(S, LAMBDA s : s.id # id)
     \/ /\ Len(T) = Len(S)
        /\ \E id \in 1..MaxId : \A i \in 1..Len(S) :
             /\ Unnamed(T[i]) = Unnamed(S[i])
             /\ T[i].name # S[i].name => S[i].id = id

\* C25: rename(id, n) changes only the name of a sample with that id and
\* nothing when the id is absent, delete(id) removes exactly the samples with
\* that id and keeps the others in order, and no step of start, stop, an edge,
\* rename, delete, aggregation or play changes the id or the events of a sample
\* that stays in the store.
C25_OnlyNameChanges ==
  /\ [](\A id \in 1..MaxId : RenameChangesNameOnly(id) /\ DeleteRemovesId(id))
  /\ [][StoreStep]_vars

\* A store loaded with ids 2 and 1: the first sample was renamed, the second
\* deleted, a session was recorded and finalized after it, and a playback
\* thread is running; the first sample still has its id and events.
C25_Witness ==
  /\ Len(recorder.samples) = 2
  /\ recorder.samples[1].id = 2 /\ recorder.samples[1].name = "x"
  /\ Len(recorder.samples[1].events) = 2
  /\ recorder.samples[2].id = 3 /\ recorder.samples[2].events # <<>>
  /\ play_threads # <<>>

(***************************************************************************)
(* C26: recording and playback are independent axes.                       *)
(***************************************************************************)
\* The listener takes one step of handle_event for a press of raw_key.
ListenerHandles(raw_key) ==
  /\ app_threads["listener"].pc # "idle"
  /\ app_threads["listener"].event = <<"Press", raw_key>>
  /\ app_threads'["listener"] # app_threads["listener"]

\* C26: no step of the handling of the playback hotkey (play or cancel) changes
\* the recording state, the live buffer or the store, in AppState (recording,
\* current_events, samples) and in the MacroRecorder (is_recording,
\* live_events, samples); no step of the handling of the record hotkey changes
\* the playback state (cancel flag, in-progress flag, worker handle, workers).
C26_IndependentAxes ==
  [][/\ ListenerHandles("F10")
        => UNCHANGED <<recording, current_events, app_samples>>
     /\ ListenerHandles("F9")
        => UNCHANGED <<playback_stop, playing, playback_handle, workers>>
     /\ (Drained /\ \A i \in 1..Len(channel) :
                      channel[i] = <<"Press", recorder.hotkey_playback, channel[i][3]>>)
        => /\ recorder'.is_recording = recorder.is_recording
           /\ recorder'.live_events = recorder.live_events
           /\ recorder'.samples = recorder.samples
     /\ (Drained /\ \A i \in 1..Len(channel) :
                      channel[i] = <<"Press", recorder.hotkey_toggle, channel[i][3]>>)
        => play_threads' = play_threads]_vars

(***************************************************************************)
(* C27: a play request with an empty timeline.                             *)
(***************************************************************************)
\* Thread t takes the first step of playback_sample on an empty timeline.
EmptyPlay(t) ==
  /\ app_threads[t].pc = "ps_entry"
  /\ app_threads[t].sample = <<>>
  /\ app_threads'[t] # app_threads[t]

\* C27: playback_sample on an empty timeline returns at once and leaves the
\* cancel flag, the in-progress flag, the worker handle, the workers (so no
\* injector call is made) and the watchers unchanged; in the MacroRecorder a
\* thread that was handed an empty timeline never makes an injector call, and
\* a play request leaves the threads already running as they are.
C27_EmptyPlayNoOp ==
  /\ [][\A t \in AppThreads :
          EmptyPlay(t) => /\ app_threads'[t].pc = app_threads[t].ret
                          /\ UNCHANGED playbackVars]_vars
  /\ [](\A i \in 1..Len(play_threads) :
          play_threads[i].events = <<>> => play_threads[i].calls = <<>>)
  /\ [][Len(play_threads') > Len(play_threads)
          => SubSeq(play_threads', 1, Len(play_threads)) = play_threads]_vars

\* playback_sample is entered with an empty timeline while a playback is in
\* progress: the flag is set and a worker is part way through its timeline.
C27_Witness ==
  /\ \E t \in AppThreads : app_threads[t].pc = "ps_entry" /\ app_threads[t].sample = <<>>
  /\ playing
  /\ ~playback_stop
  /\ \E i \in 1..Len(workers) : workers[i].pc \in {"wait", "sleep"}

(***************************************************************************)
(* C28: the wait loop.                                                     *)
(***************************************************************************)
\* wait_until's remaining time for worker w: scheduled - elapsed.
Remaining(w) == w.scheduled - (now - w.start)

\* One step of worker i of play_timeline_async.
WaitLoopStep(i) ==
  LET w == workers[i]
      v == workers'[i]
  IN /\ (w.pc = "wait" /\ v.pc = "sleep")
        => /\ Remaining(w) > SleepThreshold
           /\ SleepGuard <= Remaining(w)
           /\ v.wake > now
           /\ v.wake < w.start + w.scheduled
     /\ (w.pc = "wait" /\ ~playback_stop /\ Remaining(w) > 0
           /\ Remaining(w) <= SleepThreshold)
        => v = w
     /\ (Len(v.calls) > Len(w.calls) /\ w.broke = "due")
        => now - w.start >= w.scheduled

\* One step of thread i of play_events.
SpinLoopStep(i) ==
  LET th == play_threads[i]
      v == play_threads'[i]
  IN th.idx <= Len(th.events)
     => /\ (th.pc = "next" /\ v.pc = "sleep")
           => /\ Target(th) - Elapsed(th) > SpinWindow
              /\ v.wake > now
              /\ v.wake < th.start + Target(th)
        /\ (th.pc = "next" /\ v # th /\ Target(th) > Elapsed(th)
              /\ Target(th) - Elapsed(th) <= SpinWindow)
           => v.pc = "spin"
        /\ Len(v.calls) > Len(th.calls) => Elapsed(th) >= Target(th)

\* C28: a worker goes to sleep only when the remaining time exceeds the
\* threshold, and otherwise spins; the sleep it asks for is strictly positive
\* (the guard margin does not exceed the remaining time) and ends before the
\* target; an event delivered by a wait that was not cancelled is delivered
\* when the time elapsed since the playback's start is at least its effective
\* target.  For wait_until (macro_play.rs) and for play_events (recorder.rs).
C28_SleepAboveThreshold ==
  [][/\ \A i \in 1..Len(workers) : WaitLoopStep(i)
     /\ \A i \in 1..Len(play_threads) : SpinLoopStep(i)]_vars

\* A worker has delivered an event and is asleep for the next one, its sleep
\* ending after now and before the event's target.
C28_Witness ==
  \E i \in 1..Len(workers) :
    /\ workers[i].pc = "sleep"
    /\ workers[i].calls # <<>>
    /\ now < workers[i].wake
    /\ workers[i].wake < workers[i].start + workers[i].scheduled
    /\ ~playback_stop

(***************************************************************************)
(* C29: the finalized sample against the live buffer.                      *)
(***************************************************************************)
\* C29: the Sample pushed by stop_recording holds exactly the live buffer, and
\* the buffer grows only during a session, that is while recording is set or a
\* stop has cleared the flag and not yet taken its snapshot: no edge accepted
\* by the listener is left out of the Sample and none is appended after the
\* snapshot, whatever the interleaving of the listener with stop.
C29_SampleIsSession ==
  [][/\ Len(app_samples') > Len(app_samples)
        => app_samples'[Len(app_samples')].events = current_events
     /\ Len(current_events') > Len(current_events)
        => \/ recording
           \/ \E t \in AppThreads : app_threads[t].pc = "stop_snapshot"]_vars

(***************************************************************************)
(* C30: the held set against the last edge of each key.                    *)
(***************************************************************************)
\* Message i is the last edge of its key in the drained channel.
LastEdgeOfKey(i) ==
  \A j \in (i + 1)..Len(channel) : channel[j][2] # channel[i][2]

\* C30: after a poll, a mapped key whose most recent drained edge was a
\* Release is not in the held set, also when the Release is drained after the
\* recording was stopped or after the allow-list changed.
C30_HeldIsLastEdge ==
  [][Drained
     => \A i \in 1..Len(channel) :
          (/\ channel[i][1] = "Release"
           /\ map_key(channel[i][2]) # None
           /\ LastEdgeOfKey(i))
          => map_key(channel[i][2]) \notin recorder'.pressed_keys]_vars

(***************************************************************************)
(* C31: hotkey edges are not recorded.                                     *)
(***************************************************************************)
\* An edge, press or release, of one of the configured hotkeys.
HotkeyEdgeMsg(msg) == msg[2] \in {recorder.hotkey_toggle, recorder.hotkey_playback}

\* C31: a poll that drains only edges of the record hotkey and of the playback
\* hotkey, whatever keys they are set to, records none of them: the live
\* buffer stays as it was or is cleared by the toggle, and a Sample finalized
\* by the poll holds the buffer as it was or nothing.
C31_HotkeysNotRecorded ==
  [][(Drained /\ \A i \in 1..Len(channel) : HotkeyEdgeMsg(channel[i]))
     => /\ recorder'.live_events \in {recorder.live_events, <<>>}
        /\ \A n \in (Len(recorder.samples) + 1)..Len(recorder'.samples) :
             recorder'.samples[n].events \in {recorder.live_events, <<>>}]_vars

(***************************************************************************)
(* C32: sample ids are not reused.                                         *)
(***************************************************************************)
\* C32: across stop, delete, save and load the id counter never goes back, so
\* the id stop() assigns (the counter plus one) is greater than every id it
\* has handed out before and no id is given to two different Samples.
C32_IdsNotReused ==
  [][recorder'.sample_counter >= recorder.sample_counter]_vars

(***************************************************************************)
(* C33: the aggregate is a function of the store and the settings.         *)
(***************************************************************************)
\* C33: in every state all runs of timing_map on the recorder's store, mode
\* and outlier_k return the same sequence of events, the order of events with
\* equal aggregate offsets included.
C33_AggregationDeterministic ==
  LET out_set == timing_map(recorder)
  IN \A x \in out_set, y \in out_set : x = y

====
